---- MODULE Spec2Model ----
(***************************************************************************)
(* Blaster: the Twitter/X crawler library and its API route, the web       *)
(* search engine (v2), the crawl-and-answer pipeline behind                *)
(* POST /api/search, and the category searches.                            *)
(*                                                                         *)
(* Strings the code only compares or searches with includes() are          *)
(* sequences of fragments: <<"Twitter API", "rate limit", "exceeded">>;    *)
(* s.includes(w) is "w is a fragment of s".  A settled promise is a record *)
(* [state, value, reason].                                                 *)
(***************************************************************************)
EXTENDS Integers, Sequences, FiniteSets, TLC

\* ---------------------------------------------------------------- bounds
MaxQueries == 6   \* longest query list handed to crawlMultipleQueries
MaxFanout == 3    \* longest query list of the failure-isolation runs
MaxBodyQueries == 2  \* longest body.queries array posted to /api/crawl
MaxItems == 8     \* items in one DuckDuckGo reply (two more than MAX_RESULTS)
MaxOddItems == 3  \* items of a reply that are not of kind "own"
MaxTextLen == 2   \* characters in the text of an exported tweet
MaxAnalyticsTweets == 2  \* tweets of one response handed to the analytics
MaxResponses == 2  \* responses handed to the analytics
MaxInFlight == 2  \* requests of one page awaited together
MaxPosts == 2  \* searches submitted in one page load
MaxAuthorTweets == 4  \* tweets handed to getTopAuthors

\* ------------------------------------------------------ program constants
MAX_TWEETS_PER_CRAWL == 20
MAX_CONCURRENT_CRAWLS == 5
MAX_RESULTS_PER_SEARCH == 20
MAX_CONCURRENT_SEARCHES == 5
MAX_RESULTS == 6
MAX_PAGES == 3
MAX_CONTENT_CHARS == 6000
MAX_WEB_RESULTS == 8
MAX_IMAGE_RESULTS == 12
MAX_VIDEO_RESULTS == 8
MAX_NEWS_RESULTS == 10

VARIABLES
  engine,      \* the instance the fan-out runs on: "twitter", "twitterMock", "web"
  provider,    \* WebSearchEngine.provider ("none" for the Twitter crawlers)
  queries,     \* the argument of crawlMultipleQueries / searchMultipleQueries
  tasks,       \* crawlPromises / searchPromises: one settled-or-pending promise per slot
  calls,       \* provider requests issued so far: [slot, query]
  replies,     \* what the provider answered each slot (NoReply before it did)
  ret,         \* the promise the fan-out returned (Promise.all)
  fpc,         \* "idle" | "running"
  \* /api/crawl (route.ts of the Twitter crawler)
  token,       \* process.env.TWITTER_BEARER_TOKEN: [set, text]
  credsValid,  \* whether the Twitter API accepts that token
  request,     \* the HTTP request being served
  single,      \* the promise of the handler's own crawler.searchTweets(query)
  response,    \* the HTTP response ([status |-> 0]: none yet)
  apc,         \* "idle" | "awaitMulti" | "awaitSingle" | "done"
  \* crawler.ts: searchWeb
  swpc,        \* "idle" | "json" | "html" | "done"
  leaves,      \* the provider's items in provider order, as the reply listed them
  jsonReply,   \* what api.duckduckgo.com answered
  htmlReply,   \* what duckduckgo.com/html answered
  found,       \* the promise searchWeb returned
  \* crawler.ts: crawlPages, synthesizeAnswer, and POST /api/search
  post,        \* the request body of POST /api/search
  targets,     \* crawlPages: results.slice(0, MAX_PAGES)
  pages,       \* crawlPages: one promise per target
  fetches,     \* page fetches issued so far: [target, via]
  crawled,     \* the promise crawlPages returned
  llmKey,      \* process.env.DEEPSEEK_API_KEY is set
  llmReply,    \* what api.deepseek.com answered
  answer,      \* the HTTP response of POST /api/search ([status |-> 0]: none yet)
  ppc,         \* "idle" | "search" | "crawl" | "llm" | "done"
  \* search.ts: searchImages, searchVideos, searchNews
  cpc,         \* the provider the category search waits for ("idle", "done")
  creplies,    \* what the providers answered, in the order they were asked
  clist,       \* the promise the category search returned
  \* export-utils.ts: ExportUtils.toCSV
  exTweets,    \* the tweets handed to toCSV
  exCsv,       \* what toCSV returned ([state |-> "none"] before the call)
  \* web-search-engine-v2.ts: the environment the constructor read
  env,         \* process.env: the five search credentials
  \* web-search-engine-v2.ts: WebSearchEngine.searchWeb called directly
  wsCall,      \* WebSearchEngine.searchWeb: the call in progress [pc, query, maxResults, reply]
  wsRet,       \* the promise searchWeb returned
  \* export-utils.ts toAnalyticsJSON and the AnalyticsChart component
  analytics,   \* [pc, responses, out]: the responses handed over and what was reported
  \* page.tsx, the Twitter page
  home,        \* the state of Home: query, loading, error, results, activeResultIndex
  inflight,    \* the POST /api/crawl requests of the page not yet settled
  \* page.tsx, the Google-style page
  gpage,       \* the state of Home: query, loading, error, result, activeTab, showResults
  searches     \* [sent, pending]: the POST /api/search requests of this page load

fanVars == <<engine, provider, queries, tasks, calls, replies, ret, fpc>>
apiVars == <<token, credsValid, request, single, response, apc>>
webVars == <<swpc, leaves, jsonReply, htmlReply, found>>
pipeVars == <<post, targets, pages, fetches, crawled, llmKey, llmReply, answer, ppc>>
catVars == <<cpc, creplies, clist>>
wsVars == <<wsCall, wsRet>>
twVars == <<home, inflight>>
gVars == <<gpage, searches>>
moreVars == <<wsVars, analytics, twVars, gVars>>
auxVars == <<exTweets, exCsv, env, moreVars>>
baseVars == <<fanVars, apiVars, webVars, pipeVars, catVars, exTweets, exCsv, env>>

vars == <<fanVars, apiVars, webVars, pipeVars, catVars, auxVars>>

\* --------------------------------------------------------------- helpers
Min(a, b) == IF a < b THEN a ELSE b

\* Array.prototype.slice(0, n)
Take(s, n) == SubSeq(s, 1, Min(Len(s), n))

\* String.prototype.includes on a fragment sequence
Includes(s, w) == \E i \in 1..Len(s) : s[i] = w

SeqsUpTo(S, n) == UNION {[1..k -> S] : k \in 0..n}

Pending == [state |-> "pending", value |-> <<>>, reason |-> <<>>]
Fulfilled(v) == [state |-> "fulfilled", value |-> v, reason |-> <<>>]
Rejected(m) == [state |-> "rejected", value |-> <<>>, reason |-> m]

\* Promise.all(ps), seen right after one of ps settled (r is the returned promise
\* before that): it rejects with the first rejection, fulfils with the values in
\* input order once every input is fulfilled, and never changes once settled.
PromiseAll(ps, r) ==
  IF r.state # "pending" THEN r
  ELSE IF \E i \in 1..Len(ps) : ps[i].state = "rejected"
    THEN Rejected(ps[CHOOSE i \in 1..Len(ps) : ps[i].state = "rejected"].reason)
  ELSE IF \A i \in 1..Len(ps) : ps[i].state = "fulfilled"
    THEN Fulfilled([i \in 1..Len(ps) |-> ps[i].value])
  ELSE r

\* ------------------------------------------------- Twitter provider replies
Queries == {"ai", "web"}

RawTweets(n) == [i \in 1..n |-> [id |-> i, author_id |-> (i % 2) + 1]]

\* client.v2.search: a page of tweets (the provider decides how many), a body
\* without data, or a thrown ApiResponseError [code, message]; code 0 is "no code".
TwitterOk(n, withUsers) ==
  [kind |-> "ok", data |-> RawTweets(n), users |-> IF withUsers THEN {1, 2} ELSE {},
   code |-> 0, message |-> <<>>]
TwitterNoData ==
  [kind |-> "nodata", data |-> <<>>, users |-> {}, code |-> 0, message |-> <<>>]
TwitterError(c, m) ==
  [kind |-> "error", data |-> <<>>, users |-> {}, code |-> c, message |-> m]

TwitterResponses ==
  {TwitterOk(n, u) : n \in {0, 1, 2, MAX_TWEETS_PER_CRAWL + 1}, u \in BOOLEAN}
    \cup {TwitterNoData}
    \cup {TwitterError(c, <<>>) : c \in {429, 401, 403, 400, 503, 500}}
    \cup {TwitterError(0, <<"socket hang up">>)}

\* the replies drawn for each slot of a fan-out
TwitterLimitResponses == {TwitterOk(1, TRUE), TwitterError(429, <<>>)}

TwitterFanoutResponses ==
  {TwitterOk(1, TRUE), TwitterError(429, <<>>), TwitterError(0, <<"socket hang up">>)}

UserName(a) == IF a = 1 THEN "alice" ELSE "bob"

\* ------------------------------------------------------ TwitterCrawler
\* TwitterCrawler.searchTweets: the value or the error of the returned promise.
MapTweets(resp) ==
  [i \in 1..Len(resp.data) |->
     LET t == resp.data[i]
         known == t.author_id \in resp.users
     IN [id |-> t.id,
         username |-> IF known THEN UserName(t.author_id) ELSE "unknown",
         url |-> [user |-> IF known THEN UserName(t.author_id) ELSE "twitter",
                  status |-> t.id]]]

SearchTweetsError(resp) ==
  IF resp.code = 429
    THEN <<"Twitter API", "rate limit", "exceeded. Please try again later.">>
  ELSE IF resp.code = 401 \/ resp.code = 403
    THEN <<"Twitter API", "authentication", "failed. Please check your API credentials.">>
  ELSE IF resp.code = 400
    THEN <<"Invalid search query. Please try a different search term.">>
  ELSE IF resp.code = 503
    THEN <<"Twitter API service is temporarily unavailable. Please try again later.">>
  ELSE <<"Failed to search tweets:">>
         \o (IF resp.message = <<>> THEN <<"Unknown error">> ELSE resp.message)

SearchTweets(resp, maxResults) ==
  IF resp.kind = "error" THEN Rejected(SearchTweetsError(resp))
  ELSE IF resp.kind = "nodata" THEN Fulfilled(<<>>)
  ELSE Fulfilled(MapTweets(resp))

\* TwitterCrawler.generateSummary / TwitterCrawlerMock.generateSummary
\* A summary string is [text, query, count]: its fixed wording, the query and the
\* count it interpolates (0 where it interpolates none).
GenerateSummary(tweets, query) ==
  IF Len(tweets) = 0
    THEN [text |-> "No tweets found for query", query |-> query, count |-> 0]
    ELSE [text |-> "Found tweets", query |-> query, count |-> Len(tweets)]

CrawlErrorSummary(reason, query) ==
  IF Includes(reason, "rate limit")
    THEN [text |-> "Rate limit exceeded for query", query |-> query, count |-> 0]
  ELSE IF Includes(reason, "authentication")
    THEN [text |-> "Authentication failed for query", query |-> query, count |-> 0]
  ELSE [text |-> "Failed to crawl tweets for query", query |-> query, count |-> 0]

\* one element of crawlPromises, once its searchTweets settled as r
CrawlTaskRethrows(query, r) ==
  IF r.state = "fulfilled"
    THEN Fulfilled([query |-> query, items |-> r.value,
                    summary |-> GenerateSummary(r.value, query)])
    ELSE Rejected(r.reason)

CrawlTask(query, r) ==
  IF r.state = "fulfilled"
    THEN Fulfilled([query |-> query, items |-> r.value,
                    summary |-> GenerateSummary(r.value, query)])
    ELSE Fulfilled([query |-> query, items |-> <<>>,
                    summary |-> CrawlErrorSummary(r.reason, query)])

\* TwitterCrawler.crawlMultipleQueries: queries.slice(0, MAX_CONCURRENT_CRAWLS)
NoLimitQueries(qs) == qs

LimitedQueries(qs) == Take(qs, MAX_CONCURRENT_CRAWLS)

\* -------------------------------------------------- TwitterCrawlerMock
\* mockTweets; terms are the strings of QueryStrings that the tweet's lower-cased
\* text, username or name contains ("" and " " are contained in every tweet)
MockTweet(i, u, ts) ==
  [id |-> i, username |-> u, url |-> [user |-> u, status |-> i],
   terms |-> ts \cup {"", " "}]

mockTweets ==
  << MockTweet(1, "techlead", {"ai"}),      MockTweet(2, "webdev", {"web"}),
     MockTweet(3, "backendguru", {}),       MockTweet(4, "tsfan", {}),
     MockTweet(5, "opensource", {}),        MockTweet(6, "cleanCoder", {}),
     MockTweet(7, "devops", {}),            MockTweet(8, "polyglot", {}),
     MockTweet(9, "aiDev", {"ai", " ai "}), MockTweet(10, "docMaster", {}) >>

RECURSIVE FilterSeq(_, _)
\* Array.prototype.filter with the mock's predicate: the query is contained
FilterSeq(s, query) ==
  IF s = <<>> THEN <<>>
  ELSE (IF query \in Head(s).terms THEN <<Head(s)>> ELSE <<>>) \o FilterSeq(Tail(s), query)

StripTerms(s) == [i \in 1..Len(s) |-> [id |-> s[i].id, username |-> s[i].username, url |-> s[i].url]]

MockSearchTweets(query, maxResults) ==
  Fulfilled(StripTerms(Take(FilterSeq(mockTweets, query), maxResults)))

MockCrawlTask(query, r) ==
  IF r.state = "fulfilled"
    THEN Fulfilled([query |-> query, items |-> r.value,
                    summary |-> GenerateSummary(r.value, query)])
    ELSE Fulfilled([query |-> query, items |-> <<>>,
                    summary |-> [text |-> "Failed to crawl tweets for query",
                                 query |-> query, count |-> 0]])

\* ------------------------------------------- WebSearchEngine (v2) replies
SearchProviders == {"google", "bing", "serpapi", "newsapi", "mock"}

\* Math.random() draws of one call, in hundredths: draw i is rand[((i-1) % Len) + 1]
RandomDraws == {<<0>>, <<99, 0, 50>>, <<10, 60, 60, 30>>}

Draw(rand, i) == rand[((i - 1) % Len(rand)) + 1]

\* axios.get: a body with n items (hasItems = FALSE: the items field is missing),
\* or a thrown error [code, message]; code 0 is "no numeric code".
WebOk(n, hasItems, rand) ==
  [kind |-> "ok", n |-> n, hasItems |-> hasItems, code |-> 0, message |-> <<>>,
   rand |-> rand]
WebError(c, m, rand) ==
  [kind |-> "error", n |-> 0, hasItems |-> FALSE, code |-> c, message |-> m,
   rand |-> rand]

WebFanoutResponses ==
  {WebOk(1, TRUE, <<0>>), WebError(429, <<>>, <<0>>),
   WebError(0, <<"Network Error">>, <<99, 0, 50>>)}

\* ------------------------------------------------- WebSearchEngine (v2)
RECURSIVE InsertByScore(_, _)
\* one step of the stable sort by (a, b) => b.relevanceScore - a.relevanceScore
InsertByScore(sorted, x) ==
  IF sorted = <<>> THEN <<x>>
  ELSE IF Head(sorted).relevanceScore >= x.relevanceScore
    THEN <<Head(sorted)>> \o InsertByScore(Tail(sorted), x)
    ELSE <<x>> \o sorted

RECURSIVE SortByScore(_)
SortByScore(s) ==
  IF s = <<>> THEN <<>>
  ELSE InsertByScore(SortByScore(SubSeq(s, 1, Len(s) - 1)), s[Len(s)])

\* generateMockResults without its final sort
GenerateMockResultsUnsorted(query, maxResults, rand) ==
  [i \in 1..maxResults |->
     [article |-> i, query |-> query, source |-> "mock",
      relevanceScore |-> 500 + 5 * Draw(rand, i)]]

\* relevanceScore in thousandths: Math.random() * 0.5 + 0.5
GenerateMockResults(query, maxResults, rand) ==
  SortByScore([i \in 1..maxResults |->
     [article |-> i, query |-> query, source |-> "mock",
      relevanceScore |-> 500 + 5 * Draw(rand, i)]])

\* searchWithGoogle / searchWithBing / searchWithSerpAPI / searchWithNewsAPI:
\* relevanceScore 0.8 + Math.random() * 0.2; only SerpAPI slices to maxResults
SearchWithProvider(prov, resp, query, maxResults) ==
  IF ~resp.hasItems THEN <<>>
  ELSE [i \in 1..(IF prov = "serpapi" THEN Min(resp.n, maxResults) ELSE resp.n) |->
          [article |-> i, query |-> query, source |-> prov,
           relevanceScore |-> 800 + 2 * Draw(resp.rand, i)]]

EngineSearchError(resp) ==
  IF resp.code = 429
    THEN <<"Search API", "rate limit", "exceeded. Please try again later.">>
  ELSE IF resp.code = 401 \/ resp.code = 403
    THEN <<"Search API", "authentication", "failed. Please check your API credentials.">>
  ELSE IF resp.code = 400
    THEN <<"Invalid search query. Please try a different search term.">>
  ELSE <<"Search API service is temporarily unavailable. Please try again later.">>

\* WebSearchEngine.searchWeb
EngineSearchWeb(prov, resp, query, maxResults) ==
  IF prov = "mock" THEN Fulfilled(GenerateMockResults(query, maxResults, resp.rand))
  ELSE IF resp.kind = "ok" THEN Fulfilled(SearchWithProvider(prov, resp, query, maxResults))
  ELSE IF resp.code \in {429, 401, 403, 400, 503} THEN Rejected(EngineSearchError(resp))
  ELSE Fulfilled(GenerateMockResults(query, maxResults, resp.rand))

\* WebSearchEngine.generateSummary
EngineGenerateSummary(prov, results, query) ==
  IF Len(results) = 0
    THEN [text |-> "No results found for query", query |-> query, count |-> 0]
    ELSE [text |-> IF prov # "mock" THEN "Found results (using API)"
                                    ELSE "Found results (using mock data)",
          query |-> query, count |-> Len(results)]

SearchErrorSummary(reason, query) ==
  IF Includes(reason, "rate limit")
    THEN [text |-> "Rate limit exceeded for query", query |-> query, count |-> 0]
  ELSE IF Includes(reason, "authentication")
    THEN [text |-> "Authentication failed for query", query |-> query, count |-> 0]
  ELSE [text |-> "Failed to search for query", query |-> query, count |-> 0]

\* one element of searchPromises, once its searchWeb settled as r
SearchTask(prov, query, r) ==
  IF r.state = "fulfilled"
    THEN Fulfilled([query |-> query, items |-> r.value,
                    summary |-> EngineGenerateSummary(prov, r.value, query)])
    ELSE Fulfilled([query |-> query, items |-> <<>>,
                    summary |-> SearchErrorSummary(r.reason, query)])

\* WebSearchEngine.searchMultipleQueries: queries.slice(0, MAX_CONCURRENT_SEARCHES)
LimitedSearches(qs) == Take(qs, MAX_CONCURRENT_SEARCHES)

\* ------------------------------------------------------------ the fan-out
Limited(eng, qs) == IF eng = "web" THEN LimitedSearches(qs) ELSE LimitedQueries(qs)

\* what one slot's provider can answer; the mocks wait for a timer or nothing
TimerFired == WebOk(0, FALSE, <<0>>)
NoReply == [kind |-> "none"]

SlotResponses(eng, prov, twitterReplies) ==
  IF eng = "twitter" THEN twitterReplies
  ELSE IF eng = "twitterMock" THEN {TimerFired}
  ELSE IF prov = "mock" THEN {WebOk(0, FALSE, <<0>>), WebOk(0, FALSE, <<99, 0, 50>>)}
  ELSE WebFanoutResponses

\* the slot's promise once its provider answered resp
TaskOutcome(eng, prov, query, resp) ==
  IF eng = "twitter" THEN CrawlTask(query, SearchTweets(resp, MAX_TWEETS_PER_CRAWL))
  ELSE IF eng = "twitterMock"
    THEN MockCrawlTask(query, MockSearchTweets(query, MAX_TWEETS_PER_CRAWL))
  ELSE SearchTask(prov, query, EngineSearchWeb(prov, resp, query, MAX_RESULTS_PER_SEARCH))

\* the async callbacks run up to their first await inside map(): a real provider
\* gets its request for every slot before the call returns
IssuedCalls(eng, prov, qs) ==
  IF eng = "twitterMock" \/ (eng = "web" /\ prov = "mock") THEN <<>>
  ELSE [i \in 1..Len(qs) |-> [slot |-> i, query |-> qs[i]]]

\* the body of crawlMultipleQueries(qs) / searchMultipleQueries(qs) on instance
\* eng, up to the return of the Promise.all promise
StartFanout(eng, prov, qs) ==
  /\ queries' = qs
  /\ tasks' = [i \in 1..Len(Limited(eng, qs)) |-> Pending]
  /\ calls' = IssuedCalls(eng, prov, Limited(eng, qs))
  /\ replies' = [i \in 1..Len(Limited(eng, qs)) |-> NoReply]
  /\ ret' = PromiseAll(tasks', Pending)
  /\ fpc' = "running"

\* crawlMultipleQueries(qs) / searchMultipleQueries(qs) is called on the instance
CallFanout(qs) ==
  /\ fpc = "idle"
  /\ StartFanout(engine, provider, qs)
  /\ UNCHANGED <<engine, provider, apiVars, webVars, pipeVars, catVars, auxVars>>

\* the provider answers slot i (or the mock's timer fires)
Settle(i, resp) ==
  /\ fpc = "running"
  /\ i \in 1..Len(tasks)
  /\ tasks[i].state = "pending"
  /\ tasks' = [tasks EXCEPT ![i] =
                 TaskOutcome(engine, provider, Limited(engine, queries)[i], resp)]
  /\ replies' = [replies EXCEPT ![i] = resp]
  /\ ret' = PromiseAll(tasks', ret)
  /\ UNCHANGED <<engine, provider, queries, calls, fpc, apiVars, webVars, pipeVars, catVars, auxVars>>

IdleFanout ==
  /\ queries = <<>>
  /\ tasks = <<>>
  /\ calls = <<>>
  /\ replies = <<>>
  /\ ret = [state |-> "none", value |-> <<>>, reason |-> <<>>]
  /\ fpc = "idle"

NoRequest == [method |-> "none"]
NoResponse == [status |-> 0]

IdleApi ==
  /\ token = [set |-> FALSE, text |-> ""]
  /\ credsValid = FALSE
  /\ request = NoRequest
  /\ single = [state |-> "none", value |-> <<>>, reason |-> <<>>]
  /\ response = NoResponse
  /\ apc = "idle"

NoPromise == [state |-> "none", value |-> <<>>, reason |-> <<>>]

IdleSearchWeb ==
  /\ swpc = "idle"
  /\ leaves = <<>>
  /\ jsonReply = NoReply
  /\ htmlReply = NoReply
  /\ found = NoPromise

IdlePipeline ==
  /\ post = NoRequest
  /\ targets = <<>>
  /\ pages = <<>>
  /\ fetches = <<>>
  /\ crawled = NoPromise
  /\ llmKey = FALSE
  /\ llmReply = NoReply
  /\ answer = NoResponse
  /\ ppc = "idle"

IdleCategory ==
  /\ cpc = [stage |-> "idle", query |-> <<>>, file |-> "", category |-> ""]
  /\ creplies = <<>>
  /\ clist = NoPromise

NoCsv == [state |-> "none", text |-> <<>>]
NoEnv == [read |-> FALSE]

IdleEngineSearch ==
  /\ wsCall = [pc |-> "idle"]
  /\ wsRet = NoPromise

\* the state of the two pages as useState initialises it, nothing requested
HomeMounted ==
  /\ home = [query |-> "", loading |-> FALSE, error |-> "", results |-> <<>>,
             activeResultIndex |-> 0]
  /\ inflight = <<>>

GoogleMounted ==
  /\ gpage = [query |-> "", loading |-> FALSE, error |-> "", result |-> <<>>,
              activeTab |-> "all", showResults |-> FALSE]
  /\ searches = [sent |-> 0, pending |-> <<>>]

IdleMore ==
  /\ IdleEngineSearch
  /\ analytics = [pc |-> "idle"]
  /\ HomeMounted
  /\ GoogleMounted

IdleAux ==
  /\ IdleMore
  /\ exTweets = <<>>
  /\ exCsv = NoCsv
  /\ env = NoEnv

\* SpecLimit: either Twitter crawler, called with up to MaxQueries queries
InitLimit ==
  /\ engine \in {"twitter", "twitterMock"}
  /\ provider = "none"
  /\ IdleFanout
  /\ IdleApi
  /\ IdleSearchWeb
  /\ IdlePipeline
  /\ IdleCategory
  /\ IdleAux

NextLimit ==
  \/ \E qs \in SeqsUpTo(Queries, MaxQueries) : CallFanout(qs)
  \/ \E i \in 1..Len(tasks) :
       \E resp \in SlotResponses(engine, provider, TwitterLimitResponses) : Settle(i, resp)

SpecLimit == InitLimit /\ [][NextLimit]_vars

\* SpecIsolation: the real Twitter crawler and every WebSearchEngine provider,
\* called with up to MaxFanout queries, each slot failing or not on its own
InitIsolation ==
  /\ engine \in {"twitter", "web"}
  /\ provider \in IF engine = "web" THEN SearchProviders ELSE {"none"}
  /\ IdleFanout
  /\ IdleApi
  /\ IdleSearchWeb
  /\ IdlePipeline
  /\ IdleCategory
  /\ IdleAux

NextIsolation ==
  \/ \E qs \in SeqsUpTo(Queries, MaxFanout) : CallFanout(qs)
  \/ \E i \in 1..Len(tasks) :
       \E resp \in SlotResponses(engine, provider, TwitterFanoutResponses) : Settle(i, resp)

SpecIsolation == InitIsolation /\ [][NextIsolation]_vars

\* SpecCrawlErrors: crawlMultipleQueries of the real crawler, the provider failing
\* with any code and with messages of its own wording
TwitterErrorResponses ==
  TwitterResponses
    \cup {TwitterError(500, <<"upstream", "rate limit", "reached">>),
          TwitterError(0, <<"authentication", "service timed out">>),
          TwitterError(429, <<"Too Many Requests">>)}

InitCrawlErrors ==
  /\ engine = "twitter"
  /\ provider = "none"
  /\ IdleFanout
  /\ IdleApi
  /\ IdleSearchWeb
  /\ IdlePipeline
  /\ IdleCategory
  /\ IdleAux

NextCrawlErrors ==
  \/ \E qs \in SeqsUpTo(Queries, MaxBodyQueries) : CallFanout(qs)
  \/ \E i \in 1..Len(tasks) : \E resp \in TwitterErrorResponses : Settle(i, resp)

SpecCrawlErrors == InitCrawlErrors /\ [][NextCrawlErrors]_vars

\* ------------------------------------------------------------- /api/crawl
\* String.prototype.trim on the strings the requests and the environment hold
Trim(s) ==
  CASE s = " " -> ""
    [] s = " ai " -> "ai"
    [] s = " AAAA " -> "AAAA"
    [] OTHER -> s

\* bearerToken.includes('your_twitter')
IncludesYourTwitter(s) == s \in {"your_twitter_bearer_token_here", "x your_twitter x"}

\* process.env.TWITTER_BEARER_TOKEN: undefined, or a string
TokenUnset == [set |-> FALSE, text |-> ""]
TokenOf(t) == [set |-> TRUE, text |-> t]
Tokens ==
  {TokenUnset} \cup
  {TokenOf(t) : t \in {"", " ", "your_twitter_bearer_token_here", "x your_twitter x",
                       "AAAA", " AAAA "}}

\* JavaScript truthiness of string | undefined
Truthy(tok) == tok.set /\ tok.text # ""

\* new TwitterCrawler() throws 'TWITTER_BEARER_TOKEN is not properly configured'
ConstructorThrows(tok) == ~Truthy(tok) \/ IncludesYourTwitter(tok.text)

\* getCrawler without its try/catch: the constructor's error escapes
GetCrawlerNoCatch(tok) ==
  IF Truthy(tok) /\ Trim(tok.text) # ""
    THEN (IF ConstructorThrows(tok) THEN "throw" ELSE "twitter")
    ELSE "twitterMock"

\* getCrawler(): the kind of crawler it returns
GetCrawler(tok) ==
  IF Truthy(tok) /\ Trim(tok.text) # ""
    THEN (IF ConstructorThrows(tok) THEN "twitterMock" ELSE "twitter")
    ELSE "twitterMock"

\* a JSON value met in body.queries: a string or null; String(q)
JsString(t) == [kind |-> "string", text |-> t]
JsNull == [kind |-> "null", text |-> ""]
StringOf(q) == IF q.kind = "null" THEN "null" ELSE q.text

BodyElements == {JsString(" "), JsString(" ai "), JsNull}

RECURSIVE FilterBoolean(_)
\* Array.prototype.filter(Boolean) on strings: drops the empty ones
FilterBoolean(s) ==
  IF s = <<>> THEN <<>>
  ELSE (IF Head(s) # "" THEN <<Head(s)>> ELSE <<>>) \o FilterBoolean(Tail(s))

\* requests: GET ?query (hasQuery FALSE: no such parameter); POST with a body that
\* is not JSON (bodyOk FALSE) or holds query (queryIsString) and queries (isArray)
GetRequest(has, q) ==
  [method |-> "GET", hasQuery |-> has, query |-> q,
   bodyOk |-> TRUE, queryIsString |-> FALSE, isArray |-> FALSE, queries |-> <<>>]
PostRequest(ok, isStr, q, isArr, qs) ==
  [method |-> "POST", hasQuery |-> FALSE, query |-> q,
   bodyOk |-> ok, queryIsString |-> isStr, isArray |-> isArr, queries |-> qs]

\* a queries array with one trimmed non-blank entry more than a crawl takes
LongQueries ==
  <<JsString(" ai "), JsString(" "), JsNull>>
    \o [i \in 1..(MAX_CONCURRENT_CRAWLS - 1) |-> JsString(IF i % 2 = 0 THEN " ai " ELSE "web")]

Requests ==
  {GetRequest(FALSE, "")} \cup {GetRequest(TRUE, q) : q \in {"", " ", " ai ", "ai"}}
    \cup {PostRequest(FALSE, FALSE, "", FALSE, <<>>)}
    \cup {PostRequest(TRUE, FALSE, "", FALSE, <<>>)}
    \cup {PostRequest(TRUE, TRUE, q, FALSE, <<>>) : q \in {" ", " ai ", "web"}}
    \cup {PostRequest(TRUE, isStr, q, TRUE, qs) :
            isStr \in {TRUE}, q \in {" ", " ai "}, qs \in SeqsUpTo(BodyElements, MaxBodyQueries)}
    \cup {PostRequest(TRUE, FALSE, "", TRUE, qs) : qs \in SeqsUpTo(BodyElements, MaxBodyQueries)}
    \cup {PostRequest(TRUE, TRUE, " ai ", TRUE, LongQueries)}

\* POST: const query = typeof body?.query === "string" ? body.query.trim() : ""
\* GET:  const query = url.searchParams.get("query")
HandlerQuery(req) ==
  IF req.method = "GET" THEN req.query
  ELSE IF req.queryIsString THEN Trim(req.query) ELSE ""

\* body.queries taken as it is
HandlerQueriesUntrimmed(req) ==
  IF req.method = "POST" /\ req.isArray
    THEN [i \in 1..Len(req.queries) |-> StringOf(req.queries[i])]
    ELSE <<>>

\* POST: body.queries.map(q => String(q).trim()).filter(Boolean), [] if no array
HandlerQueries(req) ==
  IF req.method = "POST" /\ req.isArray
    THEN FilterBoolean([i \in 1..Len(req.queries) |-> Trim(StringOf(req.queries[i]))])
    ELSE <<>>

\* NextResponse.json(...)
JsonResponse(st, ok, err, res) ==
  [status |-> st, success |-> ok, error |-> err, results |-> res, totalCrawls |-> Len(res)]

BadRequest(req) ==
  JsonResponse(400, FALSE,
               IF req.method = "GET" THEN <<"Query parameter is required.">>
               ELSE <<"Query or queries are required.">>, <<>>)

ServerError(message) == JsonResponse(500, FALSE, message, <<>>)

\* the Twitter API's answers to one request of the route
ApiTwitterResponses ==
  IF credsValid
    THEN {TwitterOk(2, TRUE), TwitterOk(MAX_TWEETS_PER_CRAWL + 1, TRUE),
          TwitterError(429, <<>>), TwitterError(0, <<"socket hang up">>)}
    ELSE {TwitterError(401, <<>>), TwitterError(403, <<>>)}

\* GET / POST up to the handler's first await on the crawler (or its early return)
HandleRequest(req) ==
  /\ apc = "idle"
  /\ request' = req
  /\ UNCHANGED <<token, credsValid, provider, webVars, pipeVars, catVars, auxVars>>
  /\ IF req.method = "POST" /\ ~req.bodyOk
       THEN /\ response' = ServerError(<<"Unexpected token in JSON">>)
            /\ apc' = "done"
            /\ UNCHANGED <<engine, queries, tasks, calls, replies, ret, fpc, single>>
     ELSE IF (req.method = "GET" /\ (~req.hasQuery \/ req.query = ""))
              \/ (req.method = "POST" /\ HandlerQuery(req) = "" /\ HandlerQueries(req) = <<>>)
       THEN /\ response' = BadRequest(req)
            /\ apc' = "done"
            /\ UNCHANGED <<engine, queries, tasks, calls, replies, ret, fpc, single>>
     ELSE IF GetCrawler(token) = "throw"
       THEN /\ response' = ServerError(<<"TWITTER_BEARER_TOKEN is not properly configured">>)
            /\ apc' = "done"
            /\ UNCHANGED <<engine, queries, tasks, calls, replies, ret, fpc, single>>
     ELSE IF HandlerQueries(req) # <<>>
       THEN /\ engine' = GetCrawler(token)
            /\ StartFanout(engine', provider, HandlerQueries(req))
            /\ apc' = "awaitMulti"
            /\ UNCHANGED <<single, response>>
     ELSE /\ engine' = GetCrawler(token)
          /\ single' = Pending
          /\ calls' = IF engine' = "twitter"
                        THEN <<[slot |-> 0, query |-> HandlerQuery(req)]>> ELSE <<>>
          /\ replies' = <<NoReply>>
          /\ apc' = "awaitSingle"
          /\ UNCHANGED <<queries, tasks, ret, fpc, response>>

\* the provider answers the handler's own searchTweets(query) (or the mock's timer fires)
SettleSingle(resp) ==
  /\ apc = "awaitSingle"
  /\ single.state = "pending"
  /\ single' = IF engine = "twitter"
                 THEN SearchTweets(resp, MAX_TWEETS_PER_CRAWL)
                 ELSE MockSearchTweets(HandlerQuery(request), MAX_TWEETS_PER_CRAWL)
  /\ replies' = <<resp>>
  /\ UNCHANGED <<engine, provider, queries, tasks, calls, ret, fpc,
                 token, credsValid, request, response, apc, webVars, pipeVars, catVars, auxVars>>

\* the handler resumes after its await: the JSON answer, or the catch block's
Respond ==
  /\ \/ /\ apc = "awaitSingle"
        /\ single.state \in {"fulfilled", "rejected"}
        /\ response' =
             IF single.state = "fulfilled"
               THEN JsonResponse(200, TRUE, <<>>,
                      <<[query |-> HandlerQuery(request), items |-> single.value,
                         summary |-> [text |-> "Generated summary for query",
                                      query |-> HandlerQuery(request), count |-> 0]]>>)
               ELSE ServerError(single.reason)
     \/ /\ apc = "awaitMulti"
        /\ ret.state \in {"fulfilled", "rejected"}
        /\ response' = IF ret.state = "fulfilled"
                         THEN JsonResponse(200, TRUE, <<>>, ret.value)
                         ELSE ServerError(ret.reason)
  /\ apc' = "done"
  /\ UNCHANGED <<fanVars, token, credsValid, request, single, webVars, pipeVars, catVars, auxVars>>

\* a token the provider can accept at all: set, not blank, not the placeholder
RealConfigured ==
  /\ token.set
  /\ token.text \in {"AAAA", " AAAA "}

\* SpecCrawlApi: one request to /api/crawl under every configuration of the token
InitCrawlApi ==
  /\ engine = "none"
  /\ provider = "none"
  /\ IdleFanout
  /\ token \in Tokens
  /\ credsValid \in (IF RealConfigured THEN BOOLEAN ELSE {FALSE})
  /\ request = NoRequest
  /\ single = [state |-> "none", value |-> <<>>, reason |-> <<>>]
  /\ response = NoResponse
  /\ apc = "idle"
  /\ IdleSearchWeb
  /\ IdlePipeline
  /\ IdleCategory
  /\ IdleAux

NextCrawlApi ==
  \/ \E req \in Requests : HandleRequest(req)
  \/ \E resp \in SlotResponses(engine, provider, ApiTwitterResponses) : SettleSingle(resp)
  \/ \E i \in 1..Len(tasks) :
       \E resp \in SlotResponses(engine, provider, ApiTwitterResponses) :
         apc = "awaitMulti" /\ Settle(i, resp)
  \/ Respond

SpecCrawlApi == InitCrawlApi /\ [][NextCrawlApi]_vars

\* ------------------------------------------------------ crawler.ts: searchWeb
\* A provider item is written from its position i in provider order and a kind:
\* "own" has title i and URL i, "shared" has title i and the URL SharedUrl,
\* "nourl" and "notitle" lack the field.  0 is a missing or empty field.
ItemKinds == {"own", "shared", "nourl", "notitle"}
SharedUrl == 100
ItemTitle(lv, i) == IF lv[i] = "notitle" THEN 0 ELSE i
ItemUrl(lv, i) == IF lv[i] = "own" THEN i ELSE IF lv[i] = "shared" THEN SharedUrl ELSE 0

\* replies with at most MaxOddItems items that repeat a URL or lack a field, and
\* the replies no item of which is usable
AllLeaves ==
  {lv \in [1..MaxItems -> ItemKinds] :
     \/ Cardinality({i \in 1..MaxItems : lv[i] # "own"}) <= MaxOddItems
     \/ \A i \in 1..MaxItems : lv[i] = "nourl"
     \/ \A i \in 1..MaxItems : lv[i] = "notitle"}

\* DuckDuckGoTopic: a leaf {Text, FirstURL}, or a group {Topics} (hasTopics says
\* that item.Topics is truthy: an empty array is)
Leaf(lv, i) ==
  [Text |-> ItemTitle(lv, i), FirstURL |-> ItemUrl(lv, i), hasTopics |-> FALSE, Topics |-> <<>>]
Group(children) ==
  [Text |-> 0, FirstURL |-> 0, hasTopics |-> TRUE, Topics |-> children]
NamedGroup(children) ==
  [Text |-> 50, FirstURL |-> 50, hasTopics |-> TRUE, Topics |-> children]
LeafRange(lv, a, b) == [k \in 1..(b - a + 1) |-> Leaf(lv, a + k - 1)]

\* DuckDuckGoResponse bodies holding the items of lv in provider order
DuckDuckGoPayload(lv, shape) ==
  IF shape = "flat"
    THEN [Heading |-> ItemTitle(lv, 1), AbstractURL |-> ItemUrl(lv, 1), AbstractText |-> 1,
          resultsIsArray |-> TRUE, Results |-> LeafRange(lv, 2, 3),
          topicsIsArray |-> TRUE, RelatedTopics |-> LeafRange(lv, 4, MaxItems)]
  ELSE IF shape = "nested"
    THEN [Heading |-> 0, AbstractURL |-> 0, AbstractText |-> 0,
          resultsIsArray |-> FALSE, Results |-> <<>>,
          topicsIsArray |-> TRUE,
          RelatedTopics |->
            << Group(<<Group(LeafRange(lv, 1, 2)), Leaf(lv, 3)>>), NamedGroup(<<>>),
               Leaf(lv, 4), NamedGroup(LeafRange(lv, 5, MaxItems)) >>]
  ELSE [Heading |-> ItemTitle(lv, 1), AbstractURL |-> ItemUrl(lv, 1), AbstractText |-> 0,
        resultsIsArray |-> TRUE, Results |-> <<>>,
        topicsIsArray |-> TRUE,
        RelatedTopics |->
          << Leaf(lv, 2),
             Group(<<Leaf(lv, 3), Group(<<Leaf(lv, 4), Group(<<Leaf(lv, 5)>>)>>), Leaf(lv, 6)>>) >>
            \o LeafRange(lv, 7, MaxItems)]

PayloadShapes == {"flat", "nested", "deep"}

\* fetchWithTimeout(...) then response.json(): a body, a non-OK status, or a throw
\* (network error, abort after REQUEST_TIMEOUT_MS, malformed body)
JsonOk(lv, shape) ==
  [kind |-> "ok", leaves |-> lv, payload |-> DuckDuckGoPayload(lv, shape), page |-> <<>>]
FetchNotOk == [kind |-> "notok", leaves |-> <<>>, payload |-> <<>>, page |-> <<>>]
FetchThrows == [kind |-> "throw", leaves |-> <<>>, payload |-> <<>>, page |-> <<>>]

\* the HTML result page: one result__a anchor per item; its href is the URL itself
\* or a duckduckgo.com/l/?uddg= redirect to it
Anchor(lv, i) ==
  [href |-> [redirect |-> (i % 2 = 0), target |-> ItemUrl(lv, i)],
   title |-> ItemTitle(lv, i), snippet |-> i % 3]
HtmlOk(lv) ==
  [kind |-> "ok", leaves |-> lv, payload |-> <<>>,
   page |-> [i \in 1..MaxItems |-> Anchor(lv, i)]]

\* resolveDuckDuckGoUrl: the uddg parameter of a redirect, else the URL itself
ResolveDuckDuckGoUrl(href) == href.target

\* normalizeResult without its test of title and url
NormalizeResultUnchecked(title, url, snippet) ==
  <<[title |-> title, url |-> url, snippet |-> snippet]>>

\* normalizeResult: null is the empty sequence, an entry a sequence of one
NormalizeResult(title, url, snippet) ==
  IF title = 0 \/ url = 0 THEN <<>>
  ELSE <<[title |-> title, url |-> url, snippet |-> snippet]>>

RECURSIVE FlattenTopics(_)
FlattenTopics(topics) ==
  IF topics = <<>> THEN <<>>
  ELSE (IF Head(topics).hasTopics
          THEN FlattenTopics(Head(topics).Topics)
          ELSE NormalizeResult(Head(topics).Text, Head(topics).FirstURL, 0))
       \o FlattenTopics(Tail(topics))

RECURSIVE NormalizeAll(_)
\* the loop over payload.Results
NormalizeAll(items) ==
  IF items = <<>> THEN <<>>
  ELSE NormalizeResult(Head(items).Text, Head(items).FirstURL, 0) \o NormalizeAll(Tail(items))

\* searchWeb: the results array after the try block
ApiResults(reply) ==
  IF reply.kind # "ok" THEN <<>>
  ELSE (IF reply.payload.AbstractURL # 0 /\ reply.payload.Heading # 0
          THEN NormalizeResult(reply.payload.Heading, reply.payload.AbstractURL,
                               reply.payload.AbstractText)
          ELSE <<>>)
       \o (IF reply.payload.resultsIsArray THEN NormalizeAll(reply.payload.Results) ELSE <<>>)
       \o (IF reply.payload.topicsIsArray THEN FlattenTopics(reply.payload.RelatedTopics) ELSE <<>>)

RECURSIVE ParseDuckDuckGoHtml(_)
ParseDuckDuckGoHtml(page) ==
  IF page = <<>> THEN <<>>
  ELSE NormalizeResult(Head(page).title, ResolveDuckDuckGoUrl(Head(page).href), Head(page).snippet)
       \o ParseDuckDuckGoHtml(Tail(page))

RECURSIVE DedupeKeepLast(_, _)
\* a Map filled without the has() test: the key keeps its place, the value is the last
DedupeKeepLast(items, acc) ==
  IF items = <<>> THEN acc
  ELSE IF \E k \in 1..Len(acc) : acc[k].url = Head(items).url
    THEN DedupeKeepLast(Tail(items),
           [k \in 1..Len(acc) |-> IF acc[k].url = Head(items).url THEN Head(items) ELSE acc[k]])
    ELSE DedupeKeepLast(Tail(items), Append(acc, Head(items)))

RECURSIVE Dedupe(_, _)
\* the deduped Map: insertion order, an item enters only if its url is not a key yet
Dedupe(items, acc) ==
  IF items = <<>> THEN acc
  ELSE IF \E k \in 1..Len(acc) : acc[k].url = Head(items).url
    THEN Dedupe(Tail(items), acc)
    ELSE Dedupe(Tail(items), Append(acc, Head(items)))

\* Array.from(deduped.values()).slice(0, MAX_RESULTS)
SearchWebReturn(results) == Fulfilled(Take(Dedupe(results, <<>>), MAX_RESULTS))

\* searchWeb(query) up to its first await
StartSearchWeb ==
  /\ swpc' = "json"
  /\ found' = Pending
  /\ UNCHANGED <<leaves, jsonReply, htmlReply>>

CallSearchWeb ==
  /\ swpc = "idle"
  /\ StartSearchWeb
  /\ UNCHANGED <<fanVars, apiVars, pipeVars, catVars, auxVars>>

\* the JSON API answered: return the deduplicated results, or ask the HTML page
JsonSettles(reply) ==
  /\ swpc = "json"
  /\ jsonReply' = reply
  /\ IF ApiResults(reply) = <<>>
       THEN /\ swpc' = "html"
            /\ UNCHANGED <<leaves, found>>
       ELSE /\ swpc' = "done"
            /\ leaves' = reply.leaves
            /\ found' = SearchWebReturn(ApiResults(reply))
  /\ UNCHANGED <<htmlReply, fanVars, apiVars, pipeVars, catVars, auxVars>>

\* searchDuckDuckGoHtml settled
HtmlSettles(reply) ==
  /\ swpc = "html"
  /\ htmlReply' = reply
  /\ swpc' = "done"
  /\ leaves' = reply.leaves
  /\ found' = IF reply.kind = "throw" THEN Rejected(<<"fetch failed">>)
              ELSE IF reply.kind = "notok" THEN Rejected(<<"Search provider error">>)
              ELSE SearchWebReturn(ParseDuckDuckGoHtml(reply.page))
  /\ UNCHANGED <<jsonReply, fanVars, apiVars, pipeVars, catVars, auxVars>>

JsonReplies == {FetchNotOk, FetchThrows} \cup {JsonOk(lv, sh) : lv \in AllLeaves, sh \in PayloadShapes}

\* HTML pages: the first three items of every kind, the others plain
HtmlReplies ==
  {FetchNotOk, FetchThrows}
    \cup {HtmlOk(lv) : lv \in {l \in AllLeaves : \A i \in 4..MaxItems : l[i] = "own"}}

\* SpecSearchWeb: one call of searchWeb against every reply of the provider
InitSearchWeb ==
  /\ engine = "none"
  /\ provider = "none"
  /\ IdleFanout
  /\ IdleApi
  /\ IdleSearchWeb
  /\ IdlePipeline
  /\ IdleCategory
  /\ IdleAux

NextSearchWeb ==
  \/ CallSearchWeb
  \/ swpc = "json" /\ \E reply \in JsonReplies : JsonSettles(reply)
  \/ swpc = "html" /\ \E reply \in HtmlReplies : HtmlSettles(reply)

SpecSearchWeb == InitSearchWeb /\ [][NextSearchWeb]_vars

\* ------------------------------- crawler.ts: crawlPages, synthesizeAnswer
\* A fetched body: chars of visible text, plus whitespace runs that cleanupText
\* collapses and markup that only stripHtml removes.  A text is its length.
Body(chars, spaces, markup) == [chars |-> chars, spaces |-> spaces, markup |-> markup]
Bodies == {Body(0, 3, 0), Body(5, 2, 4), Body(MAX_CONTENT_CHARS + 1, 0, 7)}

CleanupText(body) == body.chars + body.markup
StripHtml(body) == body.chars

\* fetchWithTimeout(url) then response.text()
PageOk(body) == [kind |-> "ok", body |-> body]
PageNotOk == [kind |-> "notok", body |-> Body(0, 0, 0)]
PageThrows == [kind |-> "throw", body |-> Body(0, 0, 0)]
PageReplies == {PageOk(b) : b \in Bodies} \cup {PageNotOk, PageThrows}

\* the promise of one targets.map callback, and the fetch it waits for
PagePending(via) == [state |-> "pending", value |-> <<>>, reason |-> <<>>, via |-> via]
PageFulfilled(item, text, via) ==
  [state |-> "fulfilled",
   value |-> [title |-> item.title, url |-> item.url, snippet |-> item.snippet,
              content |-> Min(text, MAX_CONTENT_CHARS)],
   reason |-> <<>>, via |-> via]
PageRejected(m) == [state |-> "rejected", value |-> <<>>, reason |-> m, via |-> "direct"]

\* crawlPages without the slice: every result is a target
AllTargets(results) == results

\* const targets = results.slice(0, MAX_PAGES)
CrawlTargets(results) == Take(results, MAX_PAGES)

RECURSIVE FilterContent(_)
\* pages.filter((page) => page.content.length > 0)
FilterContent(ps) ==
  IF ps = <<>> THEN <<>>
  ELSE (IF Head(ps).content > 0 THEN <<Head(ps)>> ELSE <<>>) \o FilterContent(Tail(ps))

\* the promise crawlPages returned, seen right after one page promise settled
CrawlPagesReturn(ps, r) ==
  IF r.state # "pending" THEN r
  ELSE IF PromiseAll(ps, Pending).state = "fulfilled"
    THEN Fulfilled(FilterContent(PromiseAll(ps, Pending).value))
  ELSE PromiseAll(ps, Pending)

\* summarizeWithoutLlm: one line per page, with its snippet or, lacking one, the
\* first 160 characters of its content
SummarizeWithoutLlm(query, ps) ==
  [kind |-> "No LLM key configured. Here are raw snippets", query |-> query,
   lines |-> [i \in 1..Len(ps) |->
                [index |-> i, title |-> ps[i].title,
                 text |-> IF ps[i].snippet # 0
                            THEN [from |-> "snippet", n |-> ps[i].snippet]
                            ELSE [from |-> "content", n |-> Min(ps[i].content, 160)]]]]

FixedAnswer(text) == [kind |-> text, query |-> "", lines |-> <<>>]

\* api.deepseek.com/chat/completions: a completion (content 0: none, or blank),
\* a non-OK status, or a throw
LlmOk(content) == [kind |-> "ok", content |-> content]
LlmNotOk == [kind |-> "notok", content |-> 0]
LlmThrows == [kind |-> "throw", content |-> 0]
LlmReplies == {LlmOk(1), LlmOk(0), LlmNotOk, LlmThrows}

\* ----------------------------------------------------------- POST /api/search
SearchPost(ok, isStr, q) == [method |-> "POST", bodyOk |-> ok, queryIsString |-> isStr, query |-> q]
SearchPosts ==
  {SearchPost(FALSE, FALSE, ""), SearchPost(TRUE, FALSE, ""),
   SearchPost(TRUE, TRUE, " "), SearchPost(TRUE, TRUE, " ai ")}

\* const query = typeof body?.query === "string" ? body.query.trim() : ""
PostQuery(req) == IF req.queryIsString THEN Trim(req.query) ELSE ""

AnswerJson(st, q, ans, srcs, err) ==
  [status |-> st, query |-> q, answer |-> ans, sources |-> srcs, error |-> err]
AnswerError(st, err) == AnswerJson(st, "", FixedAnswer(""), <<>>, err)

\* pages.map(({ title, url, snippet }) => ({ title, url, snippet }))
Sources(ps) ==
  [i \in 1..Len(ps) |-> [title |-> ps[i].title, url |-> ps[i].url, snippet |-> ps[i].snippet]]

\* POST up to its await on searchWeb (or its early answer)
HandleSearch(req) ==
  /\ ppc = "idle"
  /\ post' = req
  /\ IF ~req.bodyOk
       THEN /\ answer' = AnswerError(500, <<"Unexpected token in JSON">>)
            /\ ppc' = "done"
            /\ UNCHANGED webVars
     ELSE IF PostQuery(req) = ""
       THEN /\ answer' = AnswerError(400, <<"Query is required.">>)
            /\ ppc' = "done"
            /\ UNCHANGED webVars
     ELSE /\ StartSearchWeb
          /\ ppc' = "search"
          /\ UNCHANGED answer
  /\ UNCHANGED <<targets, pages, fetches, crawled, llmKey, llmReply, fanVars, apiVars, catVars, auxVars>>

\* the handler without its test of results.length
AfterSearchAlwaysCrawls ==
  /\ ppc = "search"
  /\ found.state \in {"fulfilled", "rejected"}
  /\ IF found.state = "rejected"
       THEN /\ answer' = AnswerError(500, found.reason)
            /\ ppc' = "done"
            /\ UNCHANGED <<targets, pages, fetches, crawled>>
       ELSE /\ targets' = CrawlTargets(found.value)
            /\ pages' = [i \in 1..Len(targets') |-> PagePending("reader")]
            /\ fetches' = [i \in 1..Len(targets') |->
                             [target |-> i, via |-> "reader", url |-> targets'[i].url]]
            /\ crawled' = Pending
            /\ ppc' = "crawl"
            /\ UNCHANGED answer
  /\ UNCHANGED <<post, llmKey, llmReply, webVars, fanVars, apiVars, catVars, auxVars>>

\* searchWeb settled: the handler answers, or calls crawlPages, whose callbacks
\* each issue their reader fetch before the call returns
AfterSearch ==
  /\ ppc = "search"
  /\ found.state \in {"fulfilled", "rejected"}
  /\ IF found.state = "rejected"
       THEN /\ answer' = AnswerError(500, found.reason)
            /\ ppc' = "done"
            /\ UNCHANGED <<targets, pages, fetches, crawled>>
     ELSE IF found.value = <<>>
       THEN /\ answer' = AnswerJson(200, PostQuery(post),
                           FixedAnswer("No results found. Try a different search."), <<>>, <<>>)
            /\ ppc' = "done"
            /\ UNCHANGED <<targets, pages, fetches, crawled>>
     ELSE /\ targets' = CrawlTargets(found.value)
          /\ pages' = [i \in 1..Len(targets') |-> PagePending("reader")]
          /\ fetches' = [i \in 1..Len(targets') |->
                           [target |-> i, via |-> "reader", url |-> targets'[i].url]]
          /\ crawled' = Pending
          /\ ppc' = "crawl"
          /\ UNCHANGED answer
  /\ UNCHANGED <<post, llmKey, llmReply, webVars, fanVars, apiVars, catVars, auxVars>>

\* the reader proxy answered for target i: its cleaned text, or on any failure the
\* direct fetch of the page
ReaderSettles(i, reply) ==
  /\ i \in 1..Len(pages)
  /\ pages[i].state = "pending" /\ pages[i].via = "reader"
  /\ IF reply.kind = "ok"
       THEN /\ pages' = [pages EXCEPT ![i] =
                           PageFulfilled(targets[i], CleanupText(reply.body), "reader")]
            /\ UNCHANGED fetches
       ELSE /\ pages' = [pages EXCEPT ![i] = PagePending("direct")]
            /\ fetches' = Append(fetches, [target |-> i, via |-> "direct", url |-> targets[i].url])
  /\ crawled' = CrawlPagesReturn(pages', crawled)
  /\ UNCHANGED <<post, targets, llmKey, llmReply, answer, ppc, webVars, fanVars, apiVars, catVars, auxVars>>

\* the page itself answered for target i
DirectSettles(i, reply) ==
  /\ i \in 1..Len(pages)
  /\ pages[i].state = "pending" /\ pages[i].via = "direct"
  /\ pages' = [pages EXCEPT ![i] =
                 IF reply.kind = "ok"
                   THEN PageFulfilled(targets[i], StripHtml(reply.body), "direct")
                 ELSE IF reply.kind = "notok" THEN PageRejected(<<"Fetch failed">>)
                 ELSE PageRejected(<<"fetch failed">>)]
  /\ crawled' = CrawlPagesReturn(pages', crawled)
  /\ UNCHANGED <<post, targets, fetches, llmKey, llmReply, answer, ppc,
                 webVars, fanVars, apiVars, catVars, auxVars>>

\* crawlPages settled: the handler answers, or calls synthesizeAnswer, which
\* returns the snippet summary at once without a key and else asks the LLM
AfterCrawl ==
  /\ ppc = "crawl"
  /\ crawled.state \in {"fulfilled", "rejected"}
  /\ IF crawled.state = "rejected"
       THEN /\ answer' = AnswerError(500, crawled.reason)
            /\ ppc' = "done"
     ELSE IF crawled.value = <<>>
       THEN /\ answer' = AnswerJson(200, PostQuery(post),
                           FixedAnswer("Results were found, but the crawler could not read any pages."),
                           <<>>, <<>>)
            /\ ppc' = "done"
     ELSE IF ~llmKey
       THEN /\ answer' = AnswerJson(200, PostQuery(post),
                           SummarizeWithoutLlm(PostQuery(post), crawled.value),
                           Sources(crawled.value), <<>>)
            /\ ppc' = "done"
     ELSE /\ ppc' = "llm"
          /\ UNCHANGED answer
  /\ UNCHANGED <<post, targets, pages, fetches, crawled, llmKey, llmReply,
                 webVars, fanVars, apiVars, catVars, auxVars>>

\* the handler without its catch: what synthesizeAnswer throws leaves the handler
\* (the promise of POST rejects, status 0 stands for no response of the handler)
LlmSettlesUncaught(reply) ==
  /\ ppc = "llm"
  /\ llmReply' = reply
  /\ answer' =
       IF reply.kind = "throw" THEN AnswerError(0, <<"fetch failed">>)
       ELSE IF reply.kind = "notok" THEN AnswerError(0, <<"LLM request failed">>)
       ELSE IF reply.content = 0 THEN AnswerError(0, <<"LLM response empty">>)
       ELSE AnswerJson(200, PostQuery(post),
                       [kind |-> "completion", query |-> PostQuery(post), lines |-> <<>>],
                       Sources(crawled.value), <<>>)
  /\ ppc' = "done"
  /\ UNCHANGED <<post, targets, pages, fetches, crawled, llmKey, webVars, fanVars, apiVars, catVars, auxVars>>

\* the LLM provider answered: synthesizeAnswer returns or throws, the handler answers
LlmSettles(reply) ==
  /\ ppc = "llm"
  /\ llmReply' = reply
  /\ answer' =
       IF reply.kind = "throw" THEN AnswerError(500, <<"fetch failed">>)
       ELSE IF reply.kind = "notok" THEN AnswerError(500, <<"LLM request failed">>)
       ELSE IF reply.content = 0 THEN AnswerError(500, <<"LLM response empty">>)
       ELSE AnswerJson(200, PostQuery(post),
                       [kind |-> "completion", query |-> PostQuery(post), lines |-> <<>>],
                       Sources(crawled.value), <<>>)
  /\ ppc' = "done"
  /\ UNCHANGED <<post, targets, pages, fetches, crawled, llmKey, webVars, fanVars, apiVars, catVars, auxVars>>

\* the provider replies met behind the route: six results, two results under
\* groups, no usable item, a failure; and for the HTML page one result, none, failures
LeavesOf(n, rest) == [i \in 1..MaxItems |-> IF i <= n THEN "own" ELSE rest]
RouteJsonReplies ==
  {JsonOk(LeavesOf(MaxItems, "own"), "flat"), JsonOk(LeavesOf(2, "nourl"), "nested"),
   JsonOk(LeavesOf(0, "nourl"), "deep"), FetchThrows}
RouteHtmlReplies ==
  {HtmlOk(LeavesOf(1, "notitle")), HtmlOk(LeavesOf(0, "notitle")), FetchNotOk, FetchThrows}

\* SpecSearchApi: one POST /api/search, with and without DEEPSEEK_API_KEY
InitSearchApi ==
  /\ engine = "none"
  /\ provider = "none"
  /\ IdleFanout
  /\ IdleApi
  /\ IdleSearchWeb
  /\ IdleCategory
  /\ IdleAux
  /\ post = NoRequest
  /\ targets = <<>>
  /\ pages = <<>>
  /\ fetches = <<>>
  /\ crawled = NoPromise
  /\ llmKey \in BOOLEAN
  /\ llmReply = NoReply
  /\ answer = NoResponse
  /\ ppc = "idle"

NextSearchApi ==
  \/ \E req \in SearchPosts : HandleSearch(req)
  \/ swpc = "json" /\ \E reply \in RouteJsonReplies : JsonSettles(reply)
  \/ swpc = "html" /\ \E reply \in RouteHtmlReplies : HtmlSettles(reply)
  \/ AfterSearch
  \/ \E i \in 1..Len(pages) : \E reply \in PageReplies : ReaderSettles(i, reply)
  \/ \E i \in 1..Len(pages) : \E reply \in PageReplies : DirectSettles(i, reply)
  \/ AfterCrawl
  \/ \E reply \in LlmReplies : LlmSettles(reply)

SpecSearchApi == InitSearchApi /\ [][NextSearchApi]_vars

\* fetchWithTimeout: the timer set beside each fetch aborts it after
\* REQUEST_TIMEOUT_MS, so a fetch made through it settles even if the provider
\* stays silent; the handler's continuations run once their await settles.
\* synthesizeAnswer calls fetch itself, without signal or timer: nothing makes
\* that request settle but the provider.
TimersFire ==
  /\ WF_vars(JsonSettles(FetchThrows))
  /\ WF_vars(HtmlSettles(FetchThrows))
  /\ \A i \in 1..MAX_PAGES :
       /\ WF_vars(ReaderSettles(i, PageThrows))
       /\ WF_vars(DirectSettles(i, PageThrows))
  /\ WF_vars(AfterSearch)
  /\ WF_vars(AfterCrawl)

\* SpecSearchLive: one POST /api/search, every abort timer fires in time
SpecSearchLive == InitSearchApi /\ [][NextSearchApi]_vars /\ TimersFire

\* ------------------------- search.ts: searchImages, searchVideos, searchNews
\* A provider lists entries [k, t]: a key (a URL or an id) and a title, 0 where the
\* field is missing or empty.  Entries(n, dup, gap): n entries, entry i with key
\* and title i, except that entry dup repeats the key of entry 1, entry gap has no
\* key and entry gap + 1 no title.
Entries(n, dup, gap) ==
  [i \in 1..n |->
     [k |-> IF gap # 0 /\ i = gap THEN 0 ELSE IF i = dup THEN 1 ELSE i,
      t |-> IF gap # 0 /\ i = gap + 1 THEN 0 ELSE i]]

EntryLists(max) ==
  {Entries(n, dup, gap) : n \in {0, 2, 3, max + 1}, dup \in {0, 2, 3}, gap \in {0, 2}}

Keys(es) == [i \in 1..Len(es) |-> es[i].k]

\* fetchWithTimeout(...) then response.text() / response.json(): the lists the
\* parser's patterns match in the body (a, and b where it uses two patterns)
ListOk(a, b) == [kind |-> "ok", a |-> a, b |-> b]
ListNotOk == [kind |-> "notok", a |-> <<>>, b |-> <<>>]
ListThrows == [kind |-> "throw", a |-> <<>>, b |-> <<>>]

\* the search terms, as char codes: "ai", "avx"
CategoryQueries == {<<97, 105>>, <<97, 118, 120>>}

RECURSIVE HashFrom(_, _)
HashFrom(str, hash) ==
  IF str = <<>> THEN hash ELSE HashFrom(Tail(str), (hash * 32 - hash) + Head(str))

\* hashString, for strings short enough that hash stays below 2^31
HashString(str) == IF HashFrom(str, 0) < 0 THEN -HashFrom(str, 0) ELSE HashFrom(str, 0)

ImageEntry(title, site, id, image, source) ==
  [title |-> title, url |-> [site |-> site, id |-> id], image |-> image, source |-> source]

\* parseImageResultsFromHtml: match i of the image pattern with match i of the
\* link pattern (a: [src, alt] as [k, t]; b: the data-id values)
ParseImageResultsFromHtml(a, b) ==
  [i \in 1..Min(Min(Len(a), Len(b)), MAX_IMAGE_RESULTS) |->
     ImageEntry(a[i].t, "duckduckgo.com/i.js", b[i], a[i].k, "DuckDuckGo")]

RECURSIVE ProcessPexelsResults(_, _)
\* processPexelsResults (a: photos, k the page url and t src.large)
ProcessPexelsResults(photos, acc) ==
  IF photos = <<>> \/ Len(acc) >= MAX_IMAGE_RESULTS THEN acc
  ELSE IF Head(photos).t # 0 /\ Head(photos).k # 0
    THEN ProcessPexelsResults(Tail(photos),
           Append(acc, ImageEntry(-1, "pexels.com/photo", Head(photos).k, Head(photos).t, "Pexels")))
    ELSE ProcessPexelsResults(Tail(photos), acc)

RECURSIVE GoogleLoop(_, _, _, _)
GoogleLoop(ous, pts, i, acc) ==
  IF i > Min(Min(Len(ous), Len(pts)), MAX_IMAGE_RESULTS) THEN acc
  ELSE IF ous[i] # 0 /\ pts[i] # 0
    THEN GoogleLoop(ous, pts, i + 1,
           Append(acc, ImageEntry(pts[i], "google.com/search", 0, ous[i], "Google Images")))
    ELSE GoogleLoop(ous, pts, i + 1, acc)

\* parseGoogleImageResults (a: the "ou" matches, b: the "pt" matches): every entry
\* has the search page itself as its url
ParseGoogleImageResults(ous, pts) == GoogleLoop(ous, pts, 1, <<>>)

\* searchImagesBasicFallback: MAX_IMAGE_RESULTS Lorem Picsum entries
SearchImagesBasicFallback(query) ==
  [i \in 1..MAX_IMAGE_RESULTS |->
     ImageEntry(-1, "picsum.photos/id", (HashString(query) + (i - 1)) % 1000,
                (HashString(query) + (i - 1)) % 1000, "Lorem Picsum")]

VideoEntry(title, site, id, source) ==
  [title |-> title, url |-> [site |-> site, id |-> id], source |-> source]

\* the YouTube results page: videoRenderer objects (id, title; 0: none inside) and
\* "videoId" / "title" occurrences outside of them, in document order
Renderer(id, title) == [kind |-> "videoRenderer", id |-> id, title |-> title]
LooseId(id) == [kind |-> "videoId", id |-> id, title |-> 0]
LooseTitle(title) == [kind |-> "title", id |-> 0, title |-> title]

Renderers(es) == [i \in 1..Len(es) |-> Renderer(es[i].k, es[i].t)]
RECURSIVE LoosePairs(_)
LoosePairs(ids) ==
  IF ids = <<>> THEN <<>>
  ELSE <<LooseId(Head(ids)), LooseTitle(Head(ids))>> \o LoosePairs(Tail(ids))

YouTubePages ==
  {Renderers(es) \o LoosePairs(ids) :
     es \in EntryLists(MAX_VIDEO_RESULTS), ids \in {<<>>, <<20>>, <<20, 20>>, <<20, 21, 2>>}}

RECURSIVE MatchAllIds(_)
\* Array.from(html.matchAll(videoIdPattern))
MatchAllIds(html) ==
  IF html = <<>> THEN <<>>
  ELSE (IF Head(html).id # 0 THEN <<Head(html).id>> ELSE <<>>) \o MatchAllIds(Tail(html))

RECURSIVE MatchAllTitles(_)
\* Array.from(html.matchAll(titlePattern))
MatchAllTitles(html) ==
  IF html = <<>> THEN <<>>
  ELSE (IF Head(html).title # 0 THEN <<Head(html).title>> ELSE <<>>) \o MatchAllTitles(Tail(html))

RECURSIVE NewMethod(_, _, _)
\* parseVideoResultsFromHtml, first loop: [results, seen] after it
NewMethod(html, results, seen) ==
  IF html = <<>> \/ Len(results) >= MAX_VIDEO_RESULTS THEN [results |-> results, seen |-> seen]
  ELSE IF Head(html).kind # "videoRenderer" \/ Head(html).id = 0 \/ Head(html).id \in seen
    THEN NewMethod(Tail(html), results, seen)
  ELSE IF Head(html).title = 0
    THEN NewMethod(Tail(html), results, seen \cup {Head(html).id})
  ELSE NewMethod(Tail(html),
         Append(results, VideoEntry(Head(html).title, "youtube.com/watch", Head(html).id, "YouTube")),
         seen \cup {Head(html).id})

RECURSIVE OldMethod(_, _, _, _, _)
\* parseVideoResultsFromHtml, second loop: its bound is read again at every turn,
\* and seenVideoIds is only read
OldMethod(ids, titles, i, results, seen) ==
  IF i > Min(Min(Len(ids), Len(titles)), MAX_VIDEO_RESULTS - Len(results)) THEN results
  ELSE IF ids[i] \notin seen
    THEN OldMethod(ids, titles, i + 1,
           Append(results, VideoEntry(titles[i], "youtube.com/watch", ids[i], "YouTube")), seen)
    ELSE OldMethod(ids, titles, i + 1, results, seen)

ParseVideoResultsFromHtml(html) ==
  IF Len(NewMethod(html, <<>>, {}).results) < MAX_VIDEO_RESULTS
    THEN OldMethod(MatchAllIds(html), MatchAllTitles(html), 1,
                   NewMethod(html, <<>>, {}).results, NewMethod(html, <<>>, {}).seen)
    ELSE NewMethod(html, <<>>, {}).results

RECURSIVE ParseDuckDuckGoVideoResults(_, _)
\* parseDuckDuckGoVideoResults (a: the tiles, k the resolved href and t the title
\* element; 0: no such element)
ParseDuckDuckGoVideoResults(tiles, acc) ==
  IF tiles = <<>> \/ Len(acc) >= MAX_VIDEO_RESULTS THEN acc
  ELSE IF Head(tiles).t = 0 \/ Head(tiles).k = 0
    THEN ParseDuckDuckGoVideoResults(Tail(tiles), acc)
    ELSE ParseDuckDuckGoVideoResults(Tail(tiles),
           Append(acc, VideoEntry(Head(tiles).t, "link", Head(tiles).k, "Video")))

NewsEntry(title, id, source) ==
  [title |-> title, url |-> [site |-> "link", id |-> id], source |-> source]

RECURSIVE ParseNews(_, _, _)
\* parseNewsFromRss / parseNewsFromHtml (a: the items, k the link and t the title)
ParseNews(items, acc, source) ==
  IF items = <<>> \/ Len(acc) >= MAX_NEWS_RESULTS THEN acc
  ELSE IF Head(items).t # 0 /\ Head(items).k # 0
    THEN ParseNews(Tail(items), Append(acc, NewsEntry(Head(items).t, Head(items).k, source)), source)
    ELSE ParseNews(Tail(items), acc, source)

\* the web result page: result__a anchors, the href plain or a redirect
WebPage(es) ==
  [i \in 1..Len(es) |->
     [href |-> [redirect |-> (i % 2 = 0), target |-> es[i].k], title |-> es[i].t, snippet |-> 0]]

\* parseWebResultsFromHtml without its slice
ParseWebResultsNoLimit(page) == Dedupe(ParseDuckDuckGoHtml(page), <<>>)

\* parseWebResultsFromHtml (search.ts): entries with title and url, the first per
\* url, the first MAX_WEB_RESULTS of them
ParseWebResultsFromHtml(page) ==
  Take(Dedupe(ParseDuckDuckGoHtml(page), <<>>), MAX_WEB_RESULTS)

RECURSIVE ProcessUnsplashResults(_, _)
\* processUnsplashResults (a: results, k links.html and t urls.regular)
ProcessUnsplashResults(items, acc) ==
  IF items = <<>> \/ Len(acc) >= MAX_IMAGE_RESULTS THEN acc
  ELSE IF Head(items).t # 0 /\ Head(items).k # 0
    THEN ProcessUnsplashResults(Tail(items),
           Append(acc, ImageEntry(-1, "unsplash.com/photos", Head(items).k, Head(items).t, "Unsplash")))
    ELSE ProcessUnsplashResults(Tail(items), acc)

\* parseVideoResultsFromHtml of search.ts: match i of the id pattern with match i
\* of the title pattern, in one loop
ParseVideoResultsSinglePass(html) ==
  [i \in 1..Min(Min(Len(MatchAllIds(html)), Len(MatchAllTitles(html))), MAX_VIDEO_RESULTS) |->
     VideoEntry(MatchAllTitles(html)[i], "youtube.com/watch", MatchAllIds(html)[i], "YouTube")]

MaxOf(category) ==
  IF category = "web" THEN MAX_WEB_RESULTS
  ELSE IF category = "images" THEN MAX_IMAGE_RESULTS
  ELSE IF category = "videos" THEN MAX_VIDEO_RESULTS
  ELSE MAX_NEWS_RESULTS

RECURSIVE ParseJsResults(_, _, _)
\* the loops over data.results of i.js / v.js / news.js (a: results, k the url and
\* t the title; an image item has an image, which stands in for a missing url)
ParseJsResults(items, acc, category) ==
  IF items = <<>> \/ Len(acc) >= MaxOf(category) THEN acc
  ELSE IF Head(items).t # 0 /\ (Head(items).k # 0 \/ category = "images")
    THEN ParseJsResults(Tail(items),
           Append(acc, [title |-> Head(items).t,
                        url |-> IF Head(items).k # 0
                                  THEN [site |-> "link", id |-> Head(items).k]
                                  ELSE [site |-> "image", id |-> Head(items).t],
                        source |-> "DuckDuckGo"]),
           category)
    ELSE ParseJsResults(Tail(items), acc, category)

\* the three files that export searchWeb, searchImages, searchVideos, searchNews
SearchFiles == {"search.ts", "part_005", "part_005/vqd"}

\* items none of which has both of the fields a parser asks for
UnusableEntries == <<[k |-> 0, t |-> 1], [k |-> 2, t |-> 0]>>

\* searchImages of search.ts asking Pexels before Unsplash
FirstStagePexelsFirst(file, category) ==
  IF category = "web" THEN "web:html"
  ELSE IF file = "part_005/vqd" THEN "vqd"
  ELSE IF category = "images"
    THEN (IF file = "search.ts" THEN "images:pexels" ELSE "images:duckduckgo")
  ELSE IF category = "videos" THEN "videos:youtube"
  ELSE "news:rss"

\* the provider a search asks first
FirstStage(file, category) ==
  IF category = "web" THEN "web:html"
  ELSE IF file = "part_005/vqd" THEN "vqd"
  ELSE IF category = "images"
    THEN (IF file = "search.ts" THEN "images:unsplash" ELSE "images:duckduckgo")
  ELSE IF category = "videos" THEN "videos:youtube"
  ELSE "news:rss"

\* what the provider of each stage can answer
CategoryReplies(stage) ==
  {ListNotOk, ListThrows} \cup
  (IF stage = "images:duckduckgo"
     THEN {ListOk(Entries(n, 0, 0), Keys(es)) :
             n \in {2, MAX_IMAGE_RESULTS + 1}, es \in EntryLists(MAX_IMAGE_RESULTS)}
   ELSE IF stage \in {"images:pexels", "images:unsplash"}
     THEN {ListOk(es, <<>>) : es \in EntryLists(MAX_IMAGE_RESULTS) \cup {UnusableEntries}}
   ELSE IF stage = "images:google"
     THEN {ListOk(Keys(es), Keys(Entries(n, 0, 0))) :
             n \in {2, MAX_IMAGE_RESULTS + 1}, es \in EntryLists(MAX_IMAGE_RESULTS)}
   ELSE IF stage = "videos:youtube"
     THEN {ListOk(html, <<>>) : html \in YouTubePages}
   ELSE IF stage = "videos:duckduckgo"
     THEN {ListOk(es, <<>>) : es \in EntryLists(MAX_VIDEO_RESULTS)}
   ELSE IF stage = "web:html"
     THEN {ListOk(WebPage(es), <<>>) : es \in EntryLists(MAX_WEB_RESULTS)}
   ELSE IF stage = "vqd"
     THEN {ListOk(<<1>>, <<>>), ListOk(<<>>, <<>>)}
   ELSE IF stage = "js"
     THEN {ListOk(es, <<>>) : es \in EntryLists(MAX_IMAGE_RESULTS)}
   ELSE {ListOk(es, <<>>) : es \in EntryLists(MAX_NEWS_RESULTS)})

\* searchWeb / searchImages / searchVideos / searchNews of one file is called: the
\* first provider is asked
CallCategory(file, category, query) ==
  /\ cpc.stage = "idle"
  /\ cpc' = [stage |-> FirstStage(file, category), query |-> query,
             file |-> file, category |-> category]
  /\ creplies' = <<>>
  /\ clist' = Pending
  /\ UNCHANGED <<fanVars, apiVars, webVars, pipeVars, auxVars>>

Finish(list) ==
  /\ cpc' = [cpc EXCEPT !.stage = "done"]
  /\ clist' = Fulfilled(list)

NextProvider(stage) ==
  /\ cpc' = [cpc EXCEPT !.stage = stage]
  /\ UNCHANGED clist

\* the provider asked last and its answer
Answered(reply) == [stage |-> cpc.stage, reply |-> reply]

\* searchWeb: the DuckDuckGo result page, or a rejection
WebProviderSettles(reply) ==
  /\ cpc.stage = "web:html"
  /\ creplies' = Append(creplies, Answered(reply))
  /\ cpc' = [cpc EXCEPT !.stage = "done"]
  /\ clist' = IF reply.kind = "ok" THEN Fulfilled(ParseWebResultsFromHtml(reply.a))
              ELSE IF reply.kind = "notok" THEN Rejected(<<"Search provider error">>)
              ELSE Rejected(<<"fetch failed">>)
  /\ UNCHANGED <<fanVars, apiVars, webVars, pipeVars, auxVars>>

\* searchImages.  search.ts: Unsplash, then Pexels, then Lorem Picsum.
\* part_005: DuckDuckGo, then Pexels, then Google Images, then Lorem Picsum.
ImageProviderSettles(reply) ==
  /\ cpc.stage \in {"images:unsplash", "images:duckduckgo", "images:pexels", "images:google"}
  /\ creplies' = Append(creplies, Answered(reply))
  /\ IF cpc.stage = "images:unsplash"
       THEN IF reply.kind = "ok" THEN Finish(ProcessUnsplashResults(reply.a, <<>>))
            ELSE NextProvider("images:pexels")
     ELSE IF cpc.stage = "images:duckduckgo"
       THEN IF reply.kind = "ok" THEN Finish(ParseImageResultsFromHtml(reply.a, reply.b))
            ELSE NextProvider("images:pexels")
     ELSE IF cpc.stage = "images:pexels"
       THEN IF reply.kind = "ok" THEN Finish(ProcessPexelsResults(reply.a, <<>>))
            ELSE IF cpc.file = "search.ts" THEN Finish(SearchImagesBasicFallback(cpc.query))
            ELSE NextProvider("images:google")
     ELSE IF reply.kind = "ok" THEN Finish(ParseGoogleImageResults(reply.a, reply.b))
          ELSE Finish(SearchImagesBasicFallback(cpc.query))
  /\ UNCHANGED <<fanVars, apiVars, webVars, pipeVars, auxVars>>

\* searchVideosYouTube that returns an empty parse
SearchVideosYouTubeAllowsEmpty(reply) ==
  IF reply.kind = "throw" THEN Rejected(<<"fetch failed">>)
  ELSE IF reply.kind = "notok" THEN Rejected(<<"YouTube search failed">>)
  ELSE Fulfilled(ParseVideoResultsFromHtml(reply.a))

\* searchVideosYouTube (part_005): the parsed videos, or a throw
SearchVideosYouTube(reply) ==
  IF reply.kind = "throw" THEN Rejected(<<"fetch failed">>)
  ELSE IF reply.kind = "notok" THEN Rejected(<<"YouTube search failed">>)
  ELSE IF ParseVideoResultsFromHtml(reply.a) = <<>> THEN Rejected(<<"No videos found">>)
  ELSE Fulfilled(ParseVideoResultsFromHtml(reply.a))

\* searchVideos.  search.ts: the YouTube page, parsed in one loop, else nothing.
\* part_005: YouTube (an empty parse counts as a failure), then DuckDuckGo, then
\* the empty basic fallback.
VideoProviderSettles(reply) ==
  /\ cpc.stage \in {"videos:youtube", "videos:duckduckgo"}
  /\ creplies' = Append(creplies, Answered(reply))
  /\ IF cpc.stage = "videos:youtube" /\ cpc.file = "search.ts"
       THEN IF reply.kind = "ok" THEN Finish(ParseVideoResultsSinglePass(reply.a))
            ELSE Finish(<<>>)
     ELSE IF cpc.stage = "videos:youtube"
       THEN IF SearchVideosYouTube(reply).state = "fulfilled"
              THEN Finish(SearchVideosYouTube(reply).value)
              ELSE NextProvider("videos:duckduckgo")
     ELSE IF reply.kind = "ok" THEN Finish(ParseDuckDuckGoVideoResults(reply.a, <<>>))
          ELSE Finish(<<>>)
  /\ UNCHANGED <<fanVars, apiVars, webVars, pipeVars, auxVars>>

\* searchNews: the Google News feed, then the DuckDuckGo news page, then nothing
NewsProviderSettles(reply) ==
  /\ cpc.stage \in {"news:rss", "news:html"}
  /\ creplies' = Append(creplies, Answered(reply))
  /\ IF cpc.stage = "news:rss"
       THEN IF reply.kind = "ok" THEN Finish(ParseNews(reply.a, <<>>, "Google News"))
            ELSE NextProvider("news:html")
     ELSE IF reply.kind = "ok" THEN Finish(ParseNews(reply.a, <<>>, "none"))
          ELSE Finish(<<>>)
  /\ UNCHANGED <<fanVars, apiVars, webVars, pipeVars, auxVars>>

\* searchImages / searchVideos / searchNews of the vqd file: the token page, then
\* i.js / v.js / news.js; nothing on any failure
VqdProviderSettles(reply) ==
  /\ cpc.stage \in {"vqd", "js"}
  /\ creplies' = Append(creplies, Answered(reply))
  /\ IF cpc.stage = "vqd"
       THEN IF reply.kind = "ok" /\ reply.a # <<>> THEN NextProvider("js") ELSE Finish(<<>>)
     ELSE IF reply.kind = "ok" THEN Finish(ParseJsResults(reply.a, <<>>, cpc.category))
          ELSE Finish(<<>>)
  /\ UNCHANGED <<fanVars, apiVars, webVars, pipeVars, auxVars>>

\* SpecCategories: one call of searchWeb, searchImages, searchVideos or searchNews
InitCategories ==
  /\ engine = "none"
  /\ provider = "none"
  /\ IdleFanout
  /\ IdleApi
  /\ IdleSearchWeb
  /\ IdlePipeline
  /\ IdleCategory
  /\ IdleAux

NextCategories ==
  \/ \E file \in SearchFiles : \E category \in {"web", "images", "videos", "news"} :
       \E query \in CategoryQueries : CallCategory(file, category, query)
  \/ \E reply \in CategoryReplies(cpc.stage) : WebProviderSettles(reply)
  \/ \E reply \in CategoryReplies(cpc.stage) : ImageProviderSettles(reply)
  \/ \E reply \in CategoryReplies(cpc.stage) : VideoProviderSettles(reply)
  \/ \E reply \in CategoryReplies(cpc.stage) : NewsProviderSettles(reply)
  \/ \E reply \in CategoryReplies(cpc.stage) : VqdProviderSettles(reply)

SpecCategories == InitCategories /\ [][NextCategories]_vars

\* --------------------------------------- WebSearchEngine (v2) constructor
\* process.env: "" is a variable that is unset or empty.  The other values are
\* the placeholder of the setup guide, a text that holds the placeholder the
\* constructor looks for, and a real credential.
SearchApiKeys == {"", "your_google_custom_search_api_key", "my your_api_key", "AIza"}
SearchEngineIds == {"", "your_search_engine_id", "cx1"}
SerpapiKeys == {"", "your_serpapi_key", "serp1"}
BingApiKeys == {"", "your_bing_api_key", "bing1"}
NewsApiKeys == {"", "your_newsapi_key", "news1"}

Envs ==
  [read : {TRUE}, SEARCH_API_KEY : SearchApiKeys, SEARCH_ENGINE_ID : SearchEngineIds,
   SERPAPI_KEY : SerpapiKeys, BING_API_KEY : BingApiKeys, NEWS_API_KEY : NewsApiKeys]

\* String.prototype.includes on the values above
KeyIncludes(key, text) ==
  <<key, text>> \in {<<"my your_api_key", "your_api_key">>,
                     <<"your_serpapi_key", "your_serpapi_key">>,
                     <<"your_bing_api_key", "your_bing_api_key">>,
                     <<"your_newsapi_key", "your_newsapi_key">>}

\* WebSearchEngine.constructor: this.provider
Constructor(e) ==
  IF e.SEARCH_API_KEY # "" /\ e.SEARCH_ENGINE_ID # ""
       /\ ~KeyIncludes(e.SEARCH_API_KEY, "your_api_key")
    THEN "google"
  ELSE IF e.SERPAPI_KEY # "" /\ ~KeyIncludes(e.SERPAPI_KEY, "your_serpapi_key")
    THEN "serpapi"
  ELSE IF e.BING_API_KEY # "" /\ ~KeyIncludes(e.BING_API_KEY, "your_bing_api_key")
    THEN "bing"
  ELSE IF e.NEWS_API_KEY # "" /\ ~KeyIncludes(e.NEWS_API_KEY, "your_newsapi_key")
    THEN "newsapi"
  ELSE "mock"

\* getActiveProvider
GetActiveProvider == provider

\* SpecProvider: an instance constructed under every environment, then searching
InitProvider ==
  /\ env \in Envs
  /\ engine = "web"
  /\ provider = Constructor(env)
  /\ IdleFanout
  /\ IdleApi
  /\ IdleSearchWeb
  /\ IdlePipeline
  /\ IdleCategory
  /\ exTweets = <<>>
  /\ exCsv = NoCsv
  /\ IdleMore

NextProviderSearch ==
  \/ \E q \in Queries : CallFanout(<<q>>)
  \/ \E i \in 1..Len(tasks) :
       \E resp \in SlotResponses(engine, provider, TwitterFanoutResponses) : Settle(i, resp)

SpecProvider == InitProvider /\ [][NextProviderSearch]_vars

\* ------------------------------- WebSearchEngine (v2): searchWeb called directly
\* the maxResults a caller passes (MAX_RESULTS_PER_SEARCH is the default)
MaxResultsArgs == {0, 1, 3, MAX_RESULTS_PER_SEARCH}

\* what axios.get of the active provider can do; in mock mode only Math.random acts
EngineReplies(prov) ==
  IF prov = "mock" THEN {WebOk(0, FALSE, rand) : rand \in RandomDraws}
  ELSE {WebOk(n, h, rand) : n \in {0, 2, 25}, h \in BOOLEAN, rand \in {<<0>>, <<99, 0, 50>>}}
         \cup {WebError(c, m, rand) :
                 c \in {429, 401, 403, 400, 503, 500, 404, 0},
                 m \in {<<>>, <<"Network Error">>}, rand \in RandomDraws}

\* searchWeb(query, maxResults) up to its await on the provider
EngineCall(query, maxResults) ==
  /\ wsCall.pc = "idle"
  /\ wsCall' = [pc |-> "await", query |-> query, maxResults |-> maxResults, reply |-> NoReply]
  /\ wsRet' = Pending
  /\ UNCHANGED <<baseVars, analytics, twVars, gVars>>

\* the provider answered (or, in mock mode, the results were generated)
EngineSettle(resp) ==
  /\ wsCall.pc = "await"
  /\ wsCall' = [wsCall EXCEPT !.pc = "done", !.reply = resp]
  /\ wsRet' = EngineSearchWeb(provider, resp, wsCall.query, wsCall.maxResults)
  /\ UNCHANGED <<baseVars, analytics, twVars, gVars>>

InitEngineSearch ==
  /\ engine = "web"
  /\ provider \in SearchProviders
  /\ IdleFanout
  /\ IdleApi
  /\ IdleSearchWeb
  /\ IdlePipeline
  /\ IdleCategory
  /\ IdleAux

NextEngineSearch ==
  \/ \E query \in Queries : \E maxResults \in MaxResultsArgs : EngineCall(query, maxResults)
  \/ wsCall.pc = "await" /\ \E resp \in EngineReplies(provider) : EngineSettle(resp)

SpecEngineSearch == InitEngineSearch /\ [][NextEngineSearch]_vars

\* ------------------------------------------------- ExportUtils.toCSV
\* a string is the sequence of its characters; "a" and "b" stand for every
\* character that means nothing to CSV
Comma == ","
Quote == "\""
Newline == "\n"
Chars == {"a", Comma, Quote, Newline}

Texts == UNION {[1..n -> Chars] : n \in 0..MaxTextLen}

\* Number.prototype.toString on the counts of a tweet
NumberToString(n) ==
  <<CASE n = 0 -> "0" [] n = 1 -> "1" [] n = 2 -> "2" [] OTHER -> "3">>

\* a TweetResult; quoteCount 0 is a missing quoteCount, media a list
Tweet(text, username, name) ==
  [id |-> <<"7">>, text |-> text, username |-> username, name |-> name,
   createdAt |-> <<"d">>, url |-> <<"u">>,
   retweetCount |-> 1, likeCount |-> 2, replyCount |-> 3, quoteCount |-> 0, media |-> <<1, 2>>]

Usernames == {<<"a">>, <<"a", Comma>>}
Names == {<<"b">>, <<"b", Quote>>, <<"b", Newline>>}
ExportTweets == {Tweet(t, u, n) : t \in Texts, u \in Usernames, n \in Names}
PlainTweets == {Tweet(<<"a">>, <<"a">>, <<"b">>), Tweet(<<Comma>>, <<"a">>, <<"b">>)}
ExportLists ==
  {<<>>} \cup {<<t>> : t \in ExportTweets} \cup {<<t, u>> : t \in ExportTweets, u \in PlainTweets}

RECURSIVE ReplaceQuotes(_)
\* text.replace(/"/g, '""')
ReplaceQuotes(text) ==
  IF text = <<>> THEN <<>>
  ELSE (IF Head(text) = Quote THEN <<Quote, Quote>> ELSE <<Head(text)>>)
       \o ReplaceQuotes(Tail(text))

HasChar(text, c) == \E i \in 1..Len(text) : text[i] = c

\* ExportUtils.escapeCSV
EscapeCSV(text) ==
  IF HasChar(text, Comma) \/ HasChar(text, Quote) \/ HasChar(text, Newline)
    THEN <<Quote>> \o ReplaceQuotes(text) \o <<Quote>>
    ELSE text

RECURSIVE Join(_, _)
\* Array.prototype.join
Join(parts, sep) ==
  IF parts = <<>> THEN <<>>
  ELSE IF Len(parts) = 1 THEN parts[1]
  ELSE parts[1] \o <<sep>> \o Join(Tail(parts), sep)

Headers ==
  <<<<"ID">>, <<"Text">>, <<"Author Username">>, <<"Author Name">>, <<"Created At">>,
    <<"URL">>, <<"Retweet Count">>, <<"Like Count">>, <<"Reply Count">>, <<"Quote Count">>,
    <<"Media Count">>>>

\* one element of rows
CsvRow(tweet) ==
  Join(<<tweet.id, EscapeCSV(tweet.text), tweet.username, tweet.name, tweet.createdAt,
         tweet.url, NumberToString(tweet.retweetCount), NumberToString(tweet.likeCount),
         NumberToString(tweet.replyCount), NumberToString(tweet.quoteCount),
         NumberToString(Len(tweet.media))>>, Comma)

\* ExportUtils.toCSV
ToCSV(tweets) ==
  IF Len(tweets) = 0 THEN <<>>
  ELSE Join(<<Join(Headers, Comma)>> \o [i \in 1..Len(tweets) |-> CsvRow(tweets[i])], Newline)

\* a caller exports a list of tweets
ExportCSV(tweets) ==
  /\ exCsv.state = "none"
  /\ exTweets' = tweets
  /\ exCsv' = [state |-> "returned", text |-> ToCSV(tweets)]
  /\ UNCHANGED <<fanVars, apiVars, webVars, pipeVars, catVars, env, moreVars>>

\* the caller drops the text and is ready for the next export
ExportDone ==
  /\ exCsv.state = "returned"
  /\ exTweets' = <<>>
  /\ exCsv' = NoCsv
  /\ UNCHANGED <<fanVars, apiVars, webVars, pipeVars, catVars, env, moreVars>>

InitExport ==
  /\ engine = "none"
  /\ provider = "none"
  /\ IdleFanout
  /\ IdleApi
  /\ IdleSearchWeb
  /\ IdlePipeline
  /\ IdleCategory
  /\ IdleAux

NextExport ==
  \/ \E tweets \in ExportLists : ExportCSV(tweets)
  \/ ExportDone

SpecExport == InitExport /\ [][NextExport]_vars

\* ------------------------------ toAnalyticsJSON and the AnalyticsChart
\* tweets with their three counts, and the responses that hold them
CountedTweet(r, l, p) ==
  [Tweet(<<"a">>, <<"a">>, <<"b">>) EXCEPT !.retweetCount = r, !.likeCount = l, !.replyCount = p]

CountedTweets == {CountedTweet(0, 0, 0), CountedTweet(1, 2, 3), CountedTweet(5, 0, 1)}

AnalyticsResponses ==
  {[query |-> "ai", tweets |-> ts] : ts \in SeqsUpTo(CountedTweets, MaxAnalyticsTweets)}

RECURSIVE TotalRetweets(_)
\* tweets.reduce((sum, tweet) => sum + tweet.retweetCount, 0)
TotalRetweets(tweets) ==
  IF tweets = <<>> THEN 0 ELSE Head(tweets).retweetCount + TotalRetweets(Tail(tweets))

\* a likes total that adds up the retweets
TotalLikesFromRetweets(tweets) == TotalRetweets(tweets)

RECURSIVE TotalLikes(_)
\* tweets.reduce((sum, tweet) => sum + tweet.likeCount, 0)
TotalLikes(tweets) ==
  IF tweets = <<>> THEN 0 ELSE Head(tweets).likeCount + TotalLikes(Tail(tweets))

RECURSIVE TotalReplies(_)
\* tweets.reduce((sum, tweet) => sum + tweet.replyCount, 0)
TotalReplies(tweets) ==
  IF tweets = <<>> THEN 0 ELSE Head(tweets).replyCount + TotalReplies(Tail(tweets))

\* (total / n).toFixed(digits), in units of 10^-digits, rounded half up;
\* n > 0 ? total / n : 0 before it
AverageFixed(total, n, unit) ==
  IF n > 0 THEN (2 * unit * total + n) \div (2 * n) ELSE 0

\* one element of analytics in toAnalyticsJSON (averages in hundredths)
AnalyticsOf(resp) ==
  [query |-> resp.query,
   tweetCount |-> Len(resp.tweets),
   totalRetweets |-> TotalRetweets(resp.tweets),
   totalLikes |-> TotalLikes(resp.tweets),
   totalReplies |-> TotalReplies(resp.tweets),
   averageRetweets |-> AverageFixed(TotalRetweets(resp.tweets), Len(resp.tweets), 100),
   averageLikes |-> AverageFixed(TotalLikes(resp.tweets), Len(resp.tweets), 100),
   averageReplies |-> AverageFixed(TotalReplies(resp.tweets), Len(resp.tweets), 100),
   engagementRate |->
     AverageFixed(TotalRetweets(resp.tweets) + TotalLikes(resp.tweets)
                    + TotalReplies(resp.tweets), Len(resp.tweets), 100)]

\* ExportUtils.toAnalyticsJSON
ToAnalyticsJSON(responses) == [i \in 1..Len(responses) |-> AnalyticsOf(responses[i])]

RECURSIVE AllTweets(_)
\* the tweets of all responses, as the nested reduce of AnalyticsChart visits them
AllTweets(responses) ==
  IF responses = <<>> THEN <<>> ELSE Head(responses).tweets \o AllTweets(Tail(responses))

\* AnalyticsChart: null for no responses, else the figures of the dashboard
\* (avgEngagement in tenths)
AnalyticsChart(responses) ==
  IF Len(responses) = 0 THEN <<>>
  ELSE <<[totalTweets |-> Len(AllTweets(responses)),
          totalRetweets |-> TotalRetweets(AllTweets(responses)),
          totalLikes |-> TotalLikes(AllTweets(responses)),
          totalReplies |-> TotalReplies(AllTweets(responses)),
          avgEngagement |->
            AverageFixed(TotalRetweets(AllTweets(responses)) + TotalLikes(AllTweets(responses))
                           + TotalReplies(AllTweets(responses)),
                         Len(AllTweets(responses)), 10),
          queriesCrawled |-> Len(responses)]>>

\* Export Analytics is clicked
ExportAnalytics(responses) ==
  /\ analytics.pc = "idle"
  /\ analytics' = [pc |-> "exported", responses |-> responses, out |-> ToAnalyticsJSON(responses)]
  /\ UNCHANGED <<baseVars, wsVars, twVars, gVars>>

\* the dashboard is rendered
RenderAnalyticsChart(responses) ==
  /\ analytics.pc = "idle"
  /\ analytics' = [pc |-> "rendered", responses |-> responses, out |-> AnalyticsChart(responses)]
  /\ UNCHANGED <<baseVars, wsVars, twVars, gVars>>

InitAnalytics ==
  /\ engine = "none"
  /\ provider = "none"
  /\ IdleFanout
  /\ IdleApi
  /\ IdleSearchWeb
  /\ IdlePipeline
  /\ IdleCategory
  /\ IdleAux

NextAnalytics ==
  \/ \E responses \in SeqsUpTo(AnalyticsResponses, MaxResponses) : ExportAnalytics(responses)
  \/ \E responses \in SeqsUpTo(AnalyticsResponses, MaxResponses) : RenderAnalyticsChart(responses)

SpecAnalytics == InitAnalytics /\ [][NextAnalytics]_vars

\* ----------------------------------------- getTopAuthors, in its three copies
AuthorNames == {<<"a">>, <<"b">>, <<"c">>}
AuthoredTweets == {Tweet(<<"t">>, u, u) : u \in AuthorNames}
Limits == {0, 1, 3, 5}

\* authorCount.set(author, (authorCount.get(author) || 0) + 1) on a Map kept as
\* its entries in insertion order
MapCount(entries, author) ==
  IF \E i \in 1..Len(entries) : entries[i][1] = author
    THEN [i \in 1..Len(entries) |->
            IF entries[i][1] = author THEN <<author, entries[i][2] + 1>> ELSE entries[i]]
  ELSE Append(entries, <<author, 1>>)

RECURSIVE CountAuthors(_, _)
\* tweets.forEach(tweet => ...), then Array.from(authorCount.entries())
CountAuthors(tweets, entries) ==
  IF tweets = <<>> THEN entries
  ELSE CountAuthors(Tail(tweets), MapCount(entries, Head(tweets).username))

\* one step of the stable sort by (a, b) => b[1] - a[1]: e goes behind every
\* entry whose count is not smaller
InsertByCount(sorted, e) ==
  LET k == Cardinality({i \in 1..Len(sorted) : sorted[i][2] >= e[2]})
  IN SubSeq(sorted, 1, k) \o <<e>> \o SubSeq(sorted, k + 1, Len(sorted))

RECURSIVE SortByCount(_)
\* .sort((a, b) => b[1] - a[1])
SortByCount(entries) ==
  IF entries = <<>> THEN <<>>
  ELSE InsertByCount(SortByCount(SubSeq(entries, 1, Len(entries) - 1)), entries[Len(entries)])

\* .slice(0, limit)
SliceTo(s, limit) ==
  IF limit >= 0 THEN SubSeq(s, 1, Min(limit, Len(s)))
  ELSE SubSeq(s, 1, IF Len(s) + limit > 0 THEN Len(s) + limit ELSE 0)

\* .map(([author]) => `@${author}`)
AtNames(entries) == [i \in 1..Len(entries) |-> <<"@">> \o entries[i][1]]

\* TwitterCrawler.getTopAuthors
GetTopAuthors(tweets, limit) == AtNames(SliceTo(SortByCount(CountAuthors(tweets, <<>>)), limit))

\* TwitterCrawlerMock.getTopAuthors
MockGetTopAuthors(tweets, limit) == AtNames(SliceTo(SortByCount(CountAuthors(tweets, <<>>)), limit))

\* a copy that leaves the authors in their order of appearance
ExportGetTopAuthorsUnsorted(tweets, limit) == AtNames(SliceTo(CountAuthors(tweets, <<>>), limit))

\* ExportUtils.getTopAuthors
ExportGetTopAuthors(tweets, limit) == AtNames(SliceTo(SortByCount(CountAuthors(tweets, <<>>)), limit))

\* the three copies are called with the same tweets and limit
CallGetTopAuthors(tweets, limit) ==
  /\ analytics.pc = "idle"
  /\ analytics' = [pc |-> "authors", tweets |-> tweets, limit |-> limit,
                   crawler |-> GetTopAuthors(tweets, limit),
                   mock |-> MockGetTopAuthors(tweets, limit),
                   export |-> ExportGetTopAuthors(tweets, limit)]
  /\ UNCHANGED <<baseVars, wsVars, twVars, gVars>>

\* the caller has used the lists
TopAuthorsUsed ==
  /\ analytics.pc = "authors"
  /\ analytics' = [pc |-> "idle"]
  /\ UNCHANGED <<baseVars, wsVars, twVars, gVars>>

InitTopAuthors ==
  /\ engine = "none"
  /\ provider = "none"
  /\ IdleFanout
  /\ IdleApi
  /\ IdleSearchWeb
  /\ IdlePipeline
  /\ IdleCategory
  /\ IdleAux

NextTopAuthors ==
  \/ \E tweets \in SeqsUpTo(AuthoredTweets, MaxAuthorTweets) : \E limit \in Limits :
       CallGetTopAuthors(tweets, limit)
  \/ TopAuthorsUsed

SpecTopAuthors == InitTopAuthors /\ [][NextTopAuthors]_vars

\* ------------------------------------------------ page.tsx, the Twitter page
\* what can be typed into the search input
PageQueries == {"", " ", "ai", "ml", "ai,ml,go", ","}

\* query.includes(",")
IncludesComma(q) == q \in {"ai,ml,go", ","}

\* query.split(",").map(q => q.trim()).filter(Boolean)
SplitQueries(q) ==
  CASE q = "ai,ml,go" -> <<"ai", "ml", "go">>
    [] q = "ai" -> <<"ai">>
    [] q = "ml" -> <<"ml">>
    [] OTHER -> <<>>

\* controls that are never disabled
ControlsNeverDisabled == FALSE

\* disabled={loading} of the input, and the loading part of both buttons' disabled
ControlsDisabled == home.loading

\* what fetch("/api/crawl") and response.json() give the page
CrawlReplyKinds == {"ok", "status", "nosuccess", "unparsable", "network"}

\* data.results of a successful reply: one entry per query crawled, at most
\* MAX_CONCURRENT_CRAWLS of them
ResultsFor(req) ==
  [i \in 1..Min(Len(req.queries), MAX_CONCURRENT_CRAWLS) |-> [query |-> req.queries[i]]]

\* err.message in the catch block
CrawlErrorMessage(kind) ==
  CASE kind = "status" -> "Twitter API rate limit exceeded"
    [] kind = "nosuccess" -> "Failed to crawl tweets"
    [] kind = "unparsable" -> "Unexpected token < in JSON"
    [] kind = "network" -> "Failed to fetch"

\* an index left as it was when results arrive
IndexKept(index) == index

\* setActiveResultIndex(0) beside setResults(data.results)
IndexOnResults(index) == 0

\* onChange of the input
TypeQuery(q) ==
  /\ ~ControlsDisabled
  /\ q # home.query
  /\ home' = [home EXCEPT !.query = q]
  /\ UNCHANGED <<inflight, baseVars, wsVars, analytics, gVars>>

\* handleSearch up to its await
HandleSearchClick ==
  /\ ~ControlsDisabled
  /\ Trim(home.query) # ""
  /\ Len(inflight) < MaxInFlight
  /\ home' = [home EXCEPT !.loading = TRUE, !.error = "", !.results = <<>>]
  /\ inflight' = Append(inflight, [body |-> "query", queries |-> <<Trim(home.query)>>])
  /\ UNCHANGED <<baseVars, wsVars, analytics, gVars>>

\* handleMultiCrawl up to its await
HandleMultiCrawl ==
  /\ ~ControlsDisabled
  /\ IncludesComma(home.query)
  /\ Len(inflight) < MaxInFlight
  /\ IF SplitQueries(home.query) = <<>>
       THEN UNCHANGED <<home, inflight>>
       ELSE /\ home' = [home EXCEPT !.loading = TRUE, !.error = "", !.results = <<>>]
            /\ inflight' = Append(inflight, [body |-> "queries", queries |-> SplitQueries(home.query)])
  /\ UNCHANGED <<baseVars, wsVars, analytics, gVars>>

\* a handler whose failure path leaves loading as it is
CrawlSettlesNoFinally(i, kind) ==
  /\ i \in 1..Len(inflight)
  /\ home' =
       IF kind = "ok"
         THEN [home EXCEPT !.results = ResultsFor(inflight[i]),
                           !.activeResultIndex = IndexOnResults(@),
                           !.loading = FALSE]
       ELSE [home EXCEPT !.error = CrawlErrorMessage(kind)]
  /\ inflight' = SubSeq(inflight, 1, i - 1) \o SubSeq(inflight, i + 1, Len(inflight))
  /\ UNCHANGED <<baseVars, wsVars, analytics, gVars>>

\* the rest of handleSearch / handleMultiCrawl once request i settles: try, catch
\* and finally, rendered in one batch
CrawlSettles(i, kind) ==
  /\ i \in 1..Len(inflight)
  /\ home' =
       IF kind = "ok"
         THEN [home EXCEPT !.results = ResultsFor(inflight[i]),
                           !.activeResultIndex = IndexOnResults(@),
                           !.loading = FALSE]
       ELSE [home EXCEPT !.error = CrawlErrorMessage(kind), !.loading = FALSE]
  /\ inflight' = SubSeq(inflight, 1, i - 1) \o SubSeq(inflight, i + 1, Len(inflight))
  /\ UNCHANGED <<baseVars, wsVars, analytics, gVars>>

\* onClick of a result tab; the tabs are rendered for more than one result
ClickResultTab(index) ==
  /\ Len(home.results) > 1
  /\ index \in 0..(Len(home.results) - 1)
  /\ index # home.activeResultIndex
  /\ home' = [home EXCEPT !.activeResultIndex = index]
  /\ UNCHANGED <<inflight, baseVars, wsVars, analytics, gVars>>

InitTwitterPage ==
  /\ engine = "none"
  /\ provider = "none"
  /\ IdleFanout
  /\ IdleApi
  /\ IdleSearchWeb
  /\ IdlePipeline
  /\ IdleCategory
  /\ IdleAux

NextTwitterPage ==
  \/ \E q \in PageQueries : TypeQuery(q)
  \/ HandleSearchClick
  \/ HandleMultiCrawl
  \/ \E i \in 1..MaxInFlight : \E kind \in CrawlReplyKinds : CrawlSettles(i, kind)
  \/ \E index \in 0..(MAX_CONCURRENT_CRAWLS - 1) : ClickResultTab(index)

\* SpecTwitterPage: the Twitter page from its mount on
SpecTwitterPage == InitTwitterPage /\ [][NextTwitterPage]_vars

\* fetch("/api/crawl") settles: the route answers every request, and a
\* connection that fails rejects the fetch
CrawlsSettle == \A i \in 1..MaxInFlight : WF_vars(\E kind \in CrawlReplyKinds : CrawlSettles(i, kind))

\* SpecTwitterLive: the Twitter page, every request settling
SpecTwitterLive == InitTwitterPage /\ [][NextTwitterPage]_vars /\ CrawlsSettle

\* ------------------------------------------- page.tsx, the Google-style page
GoogleQueries == {"", " ", "ai", " ai ", "ml", "go"}
TabIds == {"all", "images", "videos", "news"}

\* a search form that is rendered whatever showResults is
SearchBarAlwaysRendered == TRUE

\* {!showResults ? ( ... {renderSearchBar()} ... ) : ( renderResults() )}
SearchBarRendered == ~gpage.showResults

\* what fetch("/api/search") and response.json() give the page
SearchReplyKinds == {"ok", "status", "statusNoBody", "unparsable", "network"}

\* the message set by the catch block
SearchErrorMessage(kind) ==
  CASE kind = "status" -> "Search provider error"
    [] kind = "statusNoBody" -> "Search failed. Try again."
    [] kind = "unparsable" -> "Unexpected token < in JSON"
    [] kind = "network" -> "Failed to fetch"

\* onChange of the input of the form, or of the input of the header
GoogleType(q) ==
  /\ q # gpage.query
  /\ gpage' = [gpage EXCEPT !.query = q]
  /\ UNCHANGED <<searches, baseVars, wsVars, analytics, twVars>>

\* handleSubmit up to its await; onSubmit of the form of renderSearchBar
HandleSubmit ==
  /\ SearchBarRendered
  /\ searches.sent < MaxPosts
  /\ IF Trim(gpage.query) = ""
       THEN UNCHANGED <<gpage, searches>>
       ELSE /\ gpage' = [gpage EXCEPT !.loading = TRUE, !.error = "", !.result = <<>>,
                                      !.showResults = TRUE]
            /\ searches' = [sent |-> searches.sent + 1,
                            pending |-> Append(searches.pending, Trim(gpage.query))]
  /\ UNCHANGED <<baseVars, wsVars, analytics, twVars>>

\* the rest of handleSubmit once request i settles
SearchSettles(i, kind) ==
  /\ i \in 1..Len(searches.pending)
  /\ gpage' =
       IF kind = "ok"
         THEN [gpage EXCEPT !.result = <<[query |-> searches.pending[i]]>>,
                            !.activeTab = "all", !.loading = FALSE]
       ELSE [gpage EXCEPT !.error = SearchErrorMessage(kind), !.loading = FALSE]
  /\ searches' = [searches EXCEPT !.pending =
                    SubSeq(@, 1, i - 1) \o SubSeq(@, i + 1, Len(@))]
  /\ UNCHANGED <<baseVars, wsVars, analytics, twVars>>

\* onClick of a tab of renderTabs, disabled={!result}
ClickTab(tab) ==
  /\ gpage.showResults
  /\ gpage.result # <<>>
  /\ tab # gpage.activeTab
  /\ gpage' = [gpage EXCEPT !.activeTab = tab]
  /\ UNCHANGED <<searches, baseVars, wsVars, analytics, twVars>>

InitGooglePage ==
  /\ engine = "none"
  /\ provider = "none"
  /\ IdleFanout
  /\ IdleApi
  /\ IdleSearchWeb
  /\ IdlePipeline
  /\ IdleCategory
  /\ IdleAux

NextGooglePage ==
  \/ \E q \in GoogleQueries : GoogleType(q)
  \/ HandleSubmit
  \/ \E i \in 1..MaxPosts : \E kind \in SearchReplyKinds : SearchSettles(i, kind)
  \/ \E tab \in TabIds : ClickTab(tab)

\* SpecGooglePage: the Google-style page from its mount on
SpecGooglePage == InitGooglePage /\ [][NextGooglePage]_vars

\* ------------------------------------------------------------------ C1
\* C1: crawlMultipleQueries (real and mock crawler) processes only the first 5
\* queries: a provider request is issued for slot i <= 5 only and carries
\* queries[i]; the real crawler issues one for each of the first min(n, 5); the
\* result has exactly min(n, 5) entries and entry i carries queries[i].
C1_OnlyFirstFive ==
  /\ \A k \in 1..Len(calls) :
       /\ calls[k].slot <= 5
       /\ calls[k].query = queries[calls[k].slot]
  /\ (fpc = "running" /\ engine = "twitter") => Len(calls) = Min(Len(queries), 5)
  /\ Len(tasks) <= 5
  /\ ret.state = "fulfilled" =>
       /\ Len(ret.value) = Min(Len(queries), 5)
       /\ \A i \in 1..Len(ret.value) : ret.value[i].query = queries[i]

C1_Witness ==
  /\ engine = "twitter"
  /\ Len(queries) > 5
  /\ queries[1] # queries[2]
  /\ ret.state = "fulfilled"
  /\ Len(ret.value) = 5

\* ------------------------------------------------------------------ C2
\* a target page failed on the reader proxy and on the direct fetch
PageFailed(i) == pages[i].state = "rejected"

RECURSIVE ReadPages(_)
\* the pages read with some content, in target order
ReadPages(ps) ==
  IF ps = <<>> THEN <<>>
  ELSE (IF Head(ps).state = "fulfilled" /\ Head(ps).value.content > 0
          THEN <<Head(ps).value>> ELSE <<>>)
       \o ReadPages(Tail(ps))

\* every target page has been read or has failed
AllPagesSettled == \A i \in 1..Len(pages) : pages[i].state \in {"fulfilled", "rejected"}

\* C2 as stated: when one target page fails on both the reader proxy and the
\* direct fetch, crawlPages does not reject and returns the pages that were read,
\* and POST /api/search answers 200 with those pages as sources (here without
\* DEEPSEEK_API_KEY, so that no LLM failure interferes).
C2_ContinuesWithSucceeded ==
  (\E i \in 1..Len(pages) : PageFailed(i)) =>
    /\ crawled.state # "rejected"
    /\ (AllPagesSettled /\ crawled.state = "fulfilled") => crawled.value = ReadPages(pages)
    /\ (ppc = "done" /\ ~llmKey /\ AllPagesSettled /\ ReadPages(pages) # <<>>) =>
         /\ answer.status = 200
         /\ answer.sources = Sources(ReadPages(pages))

\* ------------------------------------------------------------------ C3
ProviderFailed(i) ==
  /\ i \in 1..Len(replies)
  /\ replies[i].kind = "error"
  /\ provider # "mock"

ProviderAnswered(i) ==
  /\ i \in 1..Len(replies)
  /\ replies[i].kind = "ok"
  /\ provider # "mock"

ErrorSummaries ==
  {"Rate limit exceeded for query", "Authentication failed for query",
   "Failed to crawl tweets for query", "Failed to search for query"}

EmptyErrorEntry(i) ==
  /\ tasks[i].state = "fulfilled"
  /\ tasks[i].value.query = queries[i]
  /\ tasks[i].value.items = <<>>
  /\ tasks[i].value.summary.text \in ErrorSummaries
  /\ tasks[i].value.summary.query = queries[i]

\* the 20 generated results under the ordinary summary of a successful search
MockSubstituteEntry(i) ==
  /\ tasks[i].state = "fulfilled"
  /\ tasks[i].value.query = queries[i]
  /\ Len(tasks[i].value.items) = 20
  /\ \A k \in 1..20 : tasks[i].value.items[k].source = "mock"
  /\ tasks[i].value.summary.text = "Found results (using API)"
  /\ tasks[i].value.summary.count = 20

\* the entry of a query whose provider answered: its items, under the summary of
\* a successful crawl or search, whatever the other slots did
UndisturbedEntry(i) ==
  /\ tasks[i].state = "fulfilled"
  /\ tasks[i].value.query = queries[i]
  /\ Len(tasks[i].value.items) = (IF engine = "twitter" THEN Len(replies[i].data)
                                  ELSE IF replies[i].hasItems THEN replies[i].n ELSE 0)
  /\ tasks[i].value.summary.text \in {"Found tweets", "Found results (using API)"}
  /\ tasks[i].value.summary.count = Len(tasks[i].value.items)

NeverRejects ==
  /\ ret.state # "rejected"
  /\ \A i \in 1..Len(tasks) : tasks[i].state # "rejected"
  /\ (tasks # <<>> /\ \A i \in 1..Len(tasks) : tasks[i].state = "fulfilled") =>
       /\ ret.state = "fulfilled"
       /\ \A i \in 1..Len(tasks) : ret.value[i] = tasks[i].value

\* C3 as stated: a provider failure for one query gives that query an empty
\* tweets/results list and an error summary, every other entry is what it would
\* be without the failure, and the returned promise never rejects.
C3_Original ==
  /\ NeverRejects
  /\ \A i \in 1..Len(replies) :
       /\ ProviderFailed(i) => EmptyErrorEntry(i)
       /\ ProviderAnswered(i) => UndisturbedEntry(i)

\* C3 amended: in crawlMultipleQueries a failed query's entry is empty with an
\* error summary; in searchMultipleQueries it is so for the error codes 429, 401,
\* 403, 400 and 503, and for any other provider failure the entry holds the 20
\* generated mock results under the ordinary summary; every other entry is what
\* it would be without the failure, and the returned promise never rejects.
C3_FailureIsolated ==
  /\ NeverRejects
  /\ \A i \in 1..Len(replies) :
       /\ ProviderFailed(i) =>
            IF engine = "web" /\ replies[i].code \notin {429, 401, 403, 400, 503}
              THEN MockSubstituteEntry(i)
              ELSE EmptyErrorEntry(i)
       /\ ProviderAnswered(i) => UndisturbedEntry(i)

C3_Witness ==
  /\ engine = "web"
  /\ ret.state = "fulfilled"
  /\ Len(queries) = 3
  /\ replies[1].kind = "error" /\ replies[1].code = 0
  /\ replies[2].kind = "ok"
  /\ replies[3].kind = "error" /\ replies[3].code = 429

\* ------------------------------------------------------------------ C4
\* the LLM provider answered with a non-OK status or an empty completion
LlmFailed == llmKey /\ (llmReply.kind = "notok" \/ (llmReply.kind = "ok" /\ llmReply.content = 0))

\* C4 as stated: when the LLM provider fails (non-OK status or empty completion
\* with DEEPSEEK_API_KEY set), POST /api/search still answers 200 and the answer
\* is the generated non-LLM snippet summary of the crawled pages.
C4_LlmFailureSubstituted ==
  (LlmFailed /\ ppc = "done") =>
    /\ answer.status = 200
    /\ answer.answer = SummarizeWithoutLlm(PostQuery(post), crawled.value)

\* ------------------------------------------------------------------ C5
\* the configured token is not the placeholder and the provider rejects it
InvalidCredentials == RealConfigured /\ ~credsValid

\* the request passed the handler's validation (it was not answered 400 and its
\* body was JSON)
ValidRequestAnswered ==
  /\ apc = "done"
  /\ response.status # 400
  /\ ~(request.method = "POST" /\ ~request.bodyOk)

\* C5 as stated: with invalid credentials (a non-placeholder token the provider
\* rejects with 401/403) every valid crawl request is answered 200 with, for each
\* query, the tweets the mock crawler holds for it, never an error or an error entry.
C5_ServedFromMock ==
  (InvalidCredentials /\ ValidRequestAnswered) =>
    /\ response.status = 200
    /\ \A i \in 1..Len(response.results) :
         /\ response.results[i].items =
              MockSearchTweets(response.results[i].query, MAX_TWEETS_PER_CRAWL).value
         /\ response.results[i].summary.text \notin ErrorSummaries

\* ------------------------------------------------------------------ C6
\* C6: the crawl API runs on the real TwitterCrawler exactly when
\* TWITTER_BEARER_TOKEN is set, non-blank and free of 'your_twitter'; otherwise
\* getCrawler returns the mock crawler, and a request that passed validation is
\* then answered 200 (it never fails for lack of credentials).
C6_RealIffConfigured ==
  /\ apc \in {"awaitSingle", "awaitMulti"} => engine \in {"twitter", "twitterMock"}
  /\ engine # "none" => (engine = "twitter" <=> RealConfigured)
  /\ (~RealConfigured /\ ValidRequestAnswered) =>
       /\ engine = "twitterMock"
       /\ response.status = 200
       /\ response.success

C6_Witness ==
  /\ IncludesYourTwitter(token.text)
  /\ engine = "twitterMock"
  /\ ValidRequestAnswered
  /\ response.status = 200
  /\ Len(response.results) = 1
  /\ response.results[1].items # <<>>

\* ------------------------------------------------------------------ C7
\* C7 as stated: searchTweets with the default limit resolves to at most 20 tweets,
\* in the real and in the mock crawler, whatever the provider response holds (the
\* handler's own call, and each call made by crawlMultipleQueries).
C7_AtMostTwenty ==
  /\ single.state = "fulfilled" => Len(single.value) <= 20
  /\ \A i \in 1..Len(tasks) :
       tasks[i].state = "fulfilled" => Len(tasks[i].value.items) <= 20

\* ------------------------------------------------------------------ C8
\* the place of a URL in the results searchWeb returned (0: not among them)
ResultIndex(url) ==
  IF \E k \in 1..Len(found.value) : found.value[k].url = url
    THEN CHOOSE k \in 1..Len(found.value) : found.value[k].url = url
    ELSE 0

\* C8: crawlPages issues page fetches only for the first 3 search results, and
\* returns at most 3 pages, in the relative order of the search results, each
\* with non-empty content of at most 6000 characters.
C8_FirstThreePages ==
  /\ \A k \in 1..Len(fetches) :
       /\ fetches[k].target <= 3
       /\ fetches[k].url = found.value[fetches[k].target].url
  /\ crawled.state = "fulfilled" =>
       /\ Len(crawled.value) <= 3
       /\ \A a \in 1..Len(crawled.value) :
            /\ crawled.value[a].content > 0
            /\ crawled.value[a].content <= 6000
            /\ ResultIndex(crawled.value[a].url) \in 1..3
            /\ crawled.value[a].title = found.value[ResultIndex(crawled.value[a].url)].title
       /\ \A a, b \in 1..Len(crawled.value) :
            a < b => ResultIndex(crawled.value[a].url) < ResultIndex(crawled.value[b].url)

\* six results; the first page is cut to 6000 characters, the second is empty and
\* dropped, the third is read by the direct fetch after the reader failed
C8_Witness ==
  /\ found.state = "fulfilled" /\ Len(found.value) = 6
  /\ crawled.state = "fulfilled"
  /\ Len(fetches) = 4
  /\ Len(crawled.value) = 2
  /\ crawled.value[1].url = found.value[1].url /\ crawled.value[1].content = 6000
  /\ crawled.value[2].url = found.value[3].url /\ pages[3].via = "direct"

\* ------------------------------------------------------------------ C9
\* item i of the reply that served the call is usable (has a title and a URL)
Usable(i) == leaves[i] \in {"own", "shared"}

\* the first usable item of each URL, in provider order
FirstOfUrl ==
  {i \in 1..Len(leaves) :
     /\ Usable(i)
     /\ \A j \in 1..(i - 1) : Usable(j) => ItemUrl(leaves, j) # ItemUrl(leaves, i)}

\* C9: searchWeb returns at most 6 results with pairwise distinct URLs; the entry
\* kept for a URL is the first one in provider order (abstract, Results, then
\* RelatedTopics flattened depth-first), the kept entries are in provider order,
\* and they are the first 6 such entries.
C9_FirstSixDistinct ==
  found.state = "fulfilled" =>
    /\ Len(found.value) <= 6
    /\ Len(found.value) = Min(6, Cardinality(FirstOfUrl))
    /\ \A a, b \in 1..Len(found.value) :
         /\ a # b => found.value[a].url # found.value[b].url
         /\ a < b => found.value[a].title < found.value[b].title
    /\ \A a \in 1..Len(found.value) :
         /\ found.value[a].title \in FirstOfUrl
         /\ found.value[a].url = ItemUrl(leaves, found.value[a].title)
         /\ \A i \in FirstOfUrl :
              i < found.value[a].title => \E b \in 1..a : found.value[b].title = i

\* seven URLs, one of them repeated, under nested groups: six entries are returned
C9_Witness ==
  /\ found.state = "fulfilled"
  /\ jsonReply.kind = "ok"
  /\ jsonReply.payload.Heading = 0
  /\ Len(found.value) = 6
  /\ Cardinality(FirstOfUrl) = 7
  /\ \E i \in 1..Len(leaves) :
       Usable(i) /\ i \notin FirstOfUrl /\ i < found.value[6].title

\* ----------------------------------------------------------------- C10
\* C10 as stated: every list returned by searchImages, searchVideos and
\* searchNews is unique by URL: no two entries of one list have the same url, on
\* the primary path and on every fallback path.
C10_UniqueByUrl ==
  clist.state = "fulfilled" =>
    \A a, b \in 1..Len(clist.value) : a # b => clist.value[a].url # clist.value[b].url

\* ----------------------------------------------------------------- C11
\* C11: every category search of search.ts and its variants resolves to a bounded
\* list whatever the providers answer and on any fallback path: searchWeb at most
\* 8 entries, searchImages at most 12, searchVideos at most 8 (both loops of the
\* YouTube parser together), searchNews at most 10.
C11_BoundedLists ==
  clist.state = "fulfilled" =>
    Len(clist.value) <= (CASE cpc.category = "web" -> 8
                           [] cpc.category = "images" -> 12
                           [] cpc.category = "videos" -> 8
                           [] OTHER -> 10)

\* a web result page with nine distinct urls, cut to eight
C11_Witness ==
  /\ cpc.category = "web"
  /\ clist.state = "fulfilled"
  /\ Len(clist.value) = 8
  /\ Len(creplies[1].reply.a) = 9
  /\ \A i \in 1..9 : creplies[1].reply.a[i].title # 0

\* ----------------------------------------------------------------- C12
\* the request carries no usable query: GET without a query parameter or with one
\* that is empty after trimming; POST whose query is no string or blank and whose
\* queries is no array or holds only blank elements
BlankRequest(req) ==
  IF req.method = "GET" THEN ~req.hasQuery \/ Trim(req.query) = ""
  ELSE /\ req.bodyOk
       /\ ~req.queryIsString \/ Trim(req.query) = ""
       /\ ~req.isArray \/ \A i \in 1..Len(req.queries) : Trim(StringOf(req.queries[i])) = ""

\* C12: an API handler answers a blank query (missing, not a string, empty or only
\* whitespace; for POST /api/crawl with queries absent or all blank as well) with
\* status 400 and without calling any search or crawl provider.
C12_BlankRejected ==
  (apc # "idle" /\ BlankRequest(request)) =>
    (apc = "done" /\ response.status = 400 /\ calls = <<>> /\ single = NoPromise)

\* ----------------------------------------------------------------- C13
\* C13: in crawlMultipleQueries the entry of a failed query has no tweets and the
\* summary "Rate limit exceeded" exactly when the provider failure carried code
\* 429, "Authentication failed" exactly when it carried 401 or 403, and the
\* generic "Failed to crawl tweets" for every other failure.
C13_SummaryByCode ==
  \A i \in 1..Len(replies) :
    replies[i].kind = "error" =>
      /\ tasks[i].state = "fulfilled"
      /\ tasks[i].value.items = <<>>
      /\ tasks[i].value.summary.text =
           (IF replies[i].code = 429 THEN "Rate limit exceeded for query"
            ELSE IF replies[i].code \in {401, 403} THEN "Authentication failed for query"
            ELSE "Failed to crawl tweets for query")

\* ----------------------------------------------------------------- C14
\* a CSV reader (RFC 4180): a field that starts with a quote runs to the closing
\* quote, a doubled quote inside it is one quote; outside quotes a comma ends the
\* field and a newline ends the record.  A position is outside quotes when an
\* even number of quotes precedes it.
OutsideQuotes(s, i) == Cardinality({j \in 1..(i - 1) : s[j] = Quote}) % 2 = 0

Separators(s, c) == {i \in 1..Len(s) : s[i] = c /\ OutsideQuotes(s, i)}

NthOf(S, n) == CHOOSE i \in S : Cardinality({j \in S : j < i}) = n - 1

SplitOutsideQuotes(s, c) ==
  LET S == Separators(s, c)
      k == Cardinality(S)
  IN [n \in 1..(k + 1) |->
        SubSeq(s, IF n = 1 THEN 1 ELSE NthOf(S, n - 1) + 1,
                  IF n = k + 1 THEN Len(s) ELSE NthOf(S, n) - 1)]

RECURSIVE Undouble(_)
Undouble(f) ==
  IF f = <<>> THEN <<>>
  ELSE IF Len(f) > 1 /\ f[1] = Quote /\ f[2] = Quote THEN <<Quote>> \o Undouble(Tail(Tail(f)))
  ELSE <<Head(f)>> \o Undouble(Tail(f))

Unquote(f) ==
  IF f # <<>> /\ f[1] = Quote THEN Undouble(SubSeq(f, 2, Len(f) - 1)) ELSE f

ParseCsv(s) ==
  IF s = <<>> THEN <<>>
  ELSE LET records == SplitOutsideQuotes(s, Newline)
       IN [r \in 1..Len(records) |->
             LET fields == SplitOutsideQuotes(records[r], Comma)
             IN [f \in 1..Len(fields) |-> Unquote(fields[f])]]

\* the eleven values of a tweet, in header order
CsvValues(tweet) ==
  <<tweet.id, tweet.text, tweet.username, tweet.name, tweet.createdAt, tweet.url,
    NumberToString(tweet.retweetCount), NumberToString(tweet.likeCount),
    NumberToString(tweet.replyCount), NumberToString(tweet.quoteCount),
    NumberToString(Len(tweet.media))>>

\* C14: toCSV returns the empty string for an empty list; otherwise the header
\* line and exactly one record per tweet, in order, each of which reads back as
\* the eleven header columns with the original values, whatever commas, quotes
\* and newlines the text, the username and the name hold.
C14_CsvRoundTrip ==
  exCsv.state = "returned" =>
    IF exTweets = <<>> THEN exCsv.text = <<>>
    ELSE ParseCsv(exCsv.text) =
           <<Headers>> \o [i \in 1..Len(exTweets) |-> CsvValues(exTweets[i])]

\* ----------------------------------------------------------------- C15
\* C15: every entry of a crawl response that holds at least one tweet carries the
\* summary of aggregate statistics (tweet count, top contributors, sentiment, key
\* topics), whether its query came alone (GET, POST query) or inside queries.
C15_AggregateSummary ==
  (apc = "done" /\ response.status = 200) =>
    \A i \in 1..Len(response.results) :
      Len(response.results[i].items) >= 1 =>
        /\ response.results[i].summary.text = "Found tweets"
        /\ response.results[i].summary.count = Len(response.results[i].items)

\* ----------------------------------------------------------------- C16
\* the stage a request may enter from each stage
StageOrder ==
  {<<"idle", "search">>, <<"idle", "done">>, <<"search", "crawl">>, <<"search", "done">>,
   <<"crawl", "llm">>, <<"crawl", "done">>, <<"llm", "done">>}

NoResultsFound == found.state = "fulfilled" /\ found.value = <<>>
NoPageReadable == crawled.state = "fulfilled" /\ crawled.value = <<>>

ShortCircuitAnswer(text) ==
  /\ answer.status = 200
  /\ answer.sources = <<>>
  /\ answer.answer = FixedAnswer(text)
  /\ answer.query = PostQuery(post)

StagesOnce ==
  /\ ppc' # ppc => <<ppc, ppc'>> \in StageOrder
  /\ (swpc' # swpc /\ swpc' = "json") => (ppc = "idle" /\ ppc' = "search")
  /\ crawled' # crawled /\ crawled'.state = "pending" => (ppc = "search" /\ ppc' = "crawl")
  /\ llmReply' # llmReply => (ppc = "llm" /\ llmReply = NoReply)

ShortCircuits ==
  /\ ppc \in {"crawl", "llm"} => (found.state = "fulfilled" /\ found.value # <<>>)
  /\ ppc = "llm" => (crawled.state = "fulfilled" /\ crawled.value # <<>>)
  /\ NoResultsFound =>
       /\ targets = <<>> /\ pages = <<>> /\ fetches = <<>> /\ crawled = NoPromise
       /\ llmReply = NoReply
       /\ ppc = "done" => ShortCircuitAnswer("No results found. Try a different search.")
  /\ NoPageReadable =>
       /\ llmReply = NoReply
       /\ ppc = "done" =>
            ShortCircuitAnswer("Results were found, but the crawler could not read any pages.")

\* C16: POST /api/search runs its stages in the order search, crawl, synthesize,
\* each at most once per request; crawlPages is never started when searchWeb
\* returned no result, the LLM is never asked when no page was readable, and both
\* short-circuits answer 200 with sources = [] and a fixed explanatory answer.
C16_StagesInOrder == [][StagesOnce]_vars /\ []ShortCircuits

\* a request that went through all three stages
C16_Witness ==
  /\ ppc = "done"
  /\ found.state = "fulfilled" /\ found.value # <<>>
  /\ crawled.state = "fulfilled" /\ crawled.value # <<>>
  /\ llmReply.kind = "ok"
  /\ answer.status = 200

\* a request cut short after searchWeb
C16_WitnessNoResults == ppc = "done" /\ NoResultsFound /\ answer.status = 200

\* a request cut short after crawlPages
C16_WitnessNoPages == ppc = "done" /\ NoPageReadable /\ answer.status = 200

\* ----------------------------------------------------------------- C17
\* the JSON API answered OK with at least one entry that has a title and a URL
JsonUsable ==
  /\ jsonReply.kind = "ok"
  /\ \E i \in 1..Len(jsonReply.leaves) : jsonReply.leaves[i] \in {"own", "shared"}

JsonSettled == jsonReply # NoReply
HtmlRequested == swpc = "html" \/ htmlReply # NoReply
HtmlFailed == htmlReply # NoReply /\ htmlReply.kind \in {"notok", "throw"}

\* the HTML endpoint is asked exactly when the JSON API gave nothing usable
FallbackIff == HtmlRequested <=> (JsonSettled /\ ~JsonUsable)

\* each endpoint is asked at most once, the JSON API first
EndpointsOnce ==
  /\ swpc' # swpc =>
       <<swpc, swpc'>> \in {<<"idle", "json">>, <<"json", "html">>, <<"json", "done">>,
                            <<"html", "done">>}
  /\ jsonReply' # jsonReply => (jsonReply = NoReply /\ swpc = "json")
  /\ htmlReply' # htmlReply => (htmlReply = NoReply /\ swpc = "html")

\* C17 as stated: every failure of the HTML fallback rejects searchWeb with
\* 'Search provider error'.
C17_Original ==
  /\ FallbackIff
  /\ HtmlFailed => found = Rejected(<<"Search provider error">>)

\* C17: searchWeb of crawler.ts asks the HTML endpoint exactly when the JSON API
\* produced no usable result (it threw, answered non-OK, or had no entry with a
\* title and a URL), never when it produced one, and each endpoint at most once;
\* when the HTML fallback fails too, searchWeb rejects: with 'Search provider
\* error' if the HTML endpoint answered non-OK, with the error of the fetch if
\* the request itself threw.
C17_FallbackOnlyWhenEmpty ==
  /\ [][EndpointsOnce]_vars
  /\ [](/\ FallbackIff
        /\ found.state = "rejected" <=> HtmlFailed
        /\ HtmlFailed =>
             found.reason = IF htmlReply.kind = "notok" THEN <<"Search provider error">>
                            ELSE <<"fetch failed">>)

\* the JSON API answered OK without a usable entry and the HTML request threw
C17_Witness ==
  /\ jsonReply.kind = "ok"
  /\ ~JsonUsable
  /\ htmlReply.kind = "throw"
  /\ found.state = "rejected"

\* ----------------------------------------------------------------- C18
\* the providers searchImages of search.ts asks, in its order
ImageChain == <<"images:unsplash", "images:pexels">>

ProviderFailedAt(i) == creplies[i].reply.kind # "ok"

UsableItems(reply) ==
  {i \in 1..Len(reply.a) : reply.a[i].k # 0 /\ reply.a[i].t # 0}

Generated(list) == \E i \in 1..Len(list) : list[i].source = "Lorem Picsum"

\* C18: searchImages of search.ts never rejects.  It tries Unsplash, then Pexels,
\* then the generated Lorem Picsum list, each at most once and a later one only
\* after the one before it failed; when both remote providers fail it resolves to
\* exactly 12 generated images, and an OK answer without a usable item gives the
\* empty list without any fallback.
C18_ImageChain ==
  (cpc.file = "search.ts" /\ cpc.category = "images") =>
    /\ clist.state # "rejected"
    /\ Len(creplies) <= 2
    /\ \A i \in 1..Len(creplies) : creplies[i].stage = ImageChain[i]
    /\ \A i \in 1..(Len(creplies) - 1) : ProviderFailedAt(i)
    /\ clist.state = "pending" => (Len(creplies) < 2 /\ cpc.stage = ImageChain[Len(creplies) + 1])
    /\ (creplies # <<>> /\ ~ProviderFailedAt(Len(creplies))) =>
         /\ clist.state = "fulfilled"
         /\ ~Generated(clist.value)
         /\ Len(clist.value) = Min(Cardinality(UsableItems(creplies[Len(creplies)].reply)), 12)
    /\ (Len(creplies) = 2 /\ ProviderFailedAt(2)) =>
         /\ clist.state = "fulfilled"
         /\ Len(clist.value) = 12
         /\ \A i \in 1..12 : clist.value[i].source = "Lorem Picsum"
    /\ (clist.state = "fulfilled" /\ Generated(clist.value)) =>
         (Len(creplies) = 2 /\ ProviderFailedAt(1) /\ ProviderFailedAt(2))

\* Unsplash threw, Pexels answered non-OK: twelve generated images
C18_Witness ==
  /\ cpc.file = "search.ts" /\ cpc.category = "images"
  /\ Len(creplies) = 2
  /\ creplies[1].reply.kind = "throw"
  /\ creplies[2].reply.kind = "notok"
  /\ clist.state = "fulfilled"
  /\ Len(clist.value) = 12

\* Unsplash answered OK with items none of which is usable: the empty list
C18_WitnessEmpty ==
  /\ cpc.file = "search.ts" /\ cpc.category = "images"
  /\ Len(creplies) = 1
  /\ creplies[1].reply.kind = "ok" /\ creplies[1].reply.a # <<>>
  /\ clist = Fulfilled(<<>>)

\* ----------------------------------------------------------------- C19
\* YouTube did not give a single video: a throw, a non-OK status, or a page in
\* which the parser finds none
YouTubeFailed(reply) ==
  reply.kind # "ok" \/ ParseVideoResultsFromHtml(reply.a) = <<>>

DuckDuckGoVideosRequested == cpc.stage = "videos:duckduckgo" \/ Len(creplies) = 2

\* C19: searchVideos of part_005 never rejects.  It asks YouTube first and treats
\* a non-OK answer and a page without videos alike as a failure; it then asks
\* DuckDuckGo videos exactly once and resolves to [] when that fails too;
\* DuckDuckGo is never asked when YouTube returned at least one video.
C19_VideoChain ==
  (cpc.file = "part_005" /\ cpc.category = "videos") =>
    /\ clist.state # "rejected"
    /\ Len(creplies) <= 2
    /\ \A i \in 1..Len(creplies) :
         creplies[i].stage = <<"videos:youtube", "videos:duckduckgo">>[i]
    /\ creplies = <<>> => cpc.stage = "videos:youtube"
    /\ DuckDuckGoVideosRequested <=> (creplies # <<>> /\ YouTubeFailed(creplies[1].reply))
    /\ (creplies # <<>> /\ ~YouTubeFailed(creplies[1].reply)) =>
         clist = Fulfilled(ParseVideoResultsFromHtml(creplies[1].reply.a))
    /\ Len(creplies) = 2 =>
         /\ clist.state = "fulfilled"
         /\ creplies[2].reply.kind # "ok" => clist.value = <<>>
    /\ clist.state = "pending" <=> cpc.stage # "done"

\* YouTube answered OK with a page without videos, DuckDuckGo answered non-OK
C19_Witness ==
  /\ cpc.file = "part_005" /\ cpc.category = "videos"
  /\ Len(creplies) = 2
  /\ creplies[1].reply.kind = "ok"
  /\ creplies[2].reply.kind = "notok"
  /\ clist = Fulfilled(<<>>)

\* ----------------------------------------------------------------- C20
\* the placeholder texts of the credentials: those of the setup guide and those
\* the constructor looks for
IsPlaceholder(value) ==
  value \in {"your_google_custom_search_api_key", "my your_api_key", "your_serpapi_key",
             "your_bing_api_key", "your_newsapi_key"}

KeyUsable(value) == value # "" /\ ~IsPlaceholder(value)

PriorityProvider(e) ==
  IF KeyUsable(e.SEARCH_API_KEY) /\ e.SEARCH_ENGINE_ID # "" THEN "google"
  ELSE IF KeyUsable(e.SERPAPI_KEY) THEN "serpapi"
  ELSE IF KeyUsable(e.BING_API_KEY) THEN "bing"
  ELSE IF KeyUsable(e.NEWS_API_KEY) THEN "newsapi"
  ELSE "mock"

\* C20: the constructor of WebSearchEngine (v2) selects one provider by the fixed
\* priority google (only with both SEARCH_API_KEY and SEARCH_ENGINE_ID set),
\* serpapi, bing, newsapi, else mock, skipping every key that holds its
\* placeholder text; the provider never changes while the instance lives.
C20_FixedPriority ==
  /\ [](env.read => GetActiveProvider = PriorityProvider(env))
  /\ [][provider' = provider]_vars

\* ----------------------------------------------------------------- C21
\* the message searchWeb throws for the codes it does not cover with mock data
SpecificMessage(code) ==
  CASE code = 429 -> <<"Search API", "rate limit", "exceeded. Please try again later.">>
    [] code \in {401, 403} ->
         <<"Search API", "authentication", "failed. Please check your API credentials.">>
    [] code = 400 -> <<"Invalid search query. Please try a different search term.">>
    [] OTHER -> <<"Search API service is temporarily unavailable. Please try again later.">>

\* exactly n mock results by non-increasing relevanceScore
MockSubstitute(list, n) ==
  /\ Len(list) = n
  /\ \A k \in 1..Len(list) : list[k].source = "mock"
  /\ \A k \in 1..(Len(list) - 1) : list[k].relevanceScore >= list[k + 1].relevanceScore

\* C21: when the active real provider of WebSearchEngine.searchWeb fails, the
\* call resolves to exactly maxResults mock results by non-increasing
\* relevanceScore, unless the error code is 429, 401, 403, 400 or 503: then it
\* rejects with the message of that code and no mock data is substituted.  In
\* mock mode it never rejects.
C21_MockOnFailure ==
  wsCall.pc = "done" =>
    IF provider = "mock"
      THEN wsRet.state = "fulfilled" /\ MockSubstitute(wsRet.value, wsCall.maxResults)
    ELSE wsCall.reply.kind = "error" =>
           IF wsCall.reply.code \in {429, 401, 403, 400, 503}
             THEN wsRet = Rejected(SpecificMessage(wsCall.reply.code))
             ELSE wsRet.state = "fulfilled" /\ MockSubstitute(wsRet.value, wsCall.maxResults)

\* a real provider failed without a code: twenty mock results, not all of one score
C21_Witness ==
  /\ wsCall.pc = "done"
  /\ provider = "bing"
  /\ wsCall.reply.kind = "error" /\ wsCall.reply.code = 0
  /\ wsRet.state = "fulfilled"
  /\ Len(wsRet.value) = 20
  /\ wsRet.value[1].relevanceScore > wsRet.value[20].relevanceScore

\* ----------------------------------------------------------------- C22
\* the entries of body.queries that are not blank, trimmed, in their order
NonBlankEntries(req) ==
  IF req.isArray
    THEN SelectSeq([i \in 1..Len(req.queries) |-> Trim(StringOf(req.queries[i]))],
                   LAMBDA t : t # "")
    ELSE <<>>

\* C22: POST /api/crawl: when queries holds a non-blank entry it takes precedence
\* over query and the results are those of crawlMultipleQueries over the trimmed
\* non-blank entries; otherwise results is one entry for the trimmed query; in
\* every successful response totalCrawls is results.length and lies in 1..5.
C22_QueriesPrecedence ==
  (apc = "done" /\ response.status = 200) =>
    /\ response.totalCrawls = Len(response.results)
    /\ response.totalCrawls \in 1..5
    /\ request.method = "POST" =>
         IF NonBlankEntries(request) # <<>>
           THEN /\ Len(response.results) = Min(Len(NonBlankEntries(request)), 5)
                /\ \A i \in 1..Len(response.results) :
                     response.results[i].query = NonBlankEntries(request)[i]
           ELSE /\ Len(response.results) = 1
                /\ response.results[1].query = Trim(request.query)

\* six non-blank entries next to a usable query: the first five are crawled
C22_Witness ==
  /\ apc = "done" /\ response.status = 200
  /\ request.method = "POST"
  /\ Trim(request.query) = "ai"
  /\ Len(NonBlankEntries(request)) = 6
  /\ response.totalCrawls = 5
  /\ response.results[2].query = "null"

\* ----------------------------------------------------------------- C23
RECURSIVE SumCount(_, _)
\* the sum of one count over a list of tweets
SumCount(tweets, count) ==
  IF tweets = <<>> THEN 0 ELSE tweets[1][count] + SumCount(Tail(tweets), count)

\* the totals of an analytics entry or of the dashboard are the sums over tweets
TotalsOf(figures, tweets) ==
  /\ figures.totalRetweets = SumCount(tweets, "retweetCount")
  /\ figures.totalLikes = SumCount(tweets, "likeCount")
  /\ figures.totalReplies = SumCount(tweets, "replyCount")

\* toAnalyticsJSON: per response, its sums; zero averages and rate without tweets
ExportedFigures ==
  analytics.pc = "exported" =>
    /\ Len(analytics.out) = Len(analytics.responses)
    /\ \A i \in 1..Len(analytics.out) :
         /\ TotalsOf(analytics.out[i], analytics.responses[i].tweets)
         /\ analytics.responses[i].tweets = <<>> =>
              /\ analytics.out[i].averageRetweets = 0
              /\ analytics.out[i].averageLikes = 0
              /\ analytics.out[i].averageReplies = 0
              /\ analytics.out[i].engagementRate = 0

\* C23 as stated: the dashboard too reports, for every response, the sums over
\* the tweets of that response.
C23_Original ==
  /\ ExportedFigures
  /\ analytics.pc = "rendered" =>
       \A i \in 1..Len(analytics.responses) :
         /\ analytics.out # <<>>
         /\ TotalsOf(analytics.out[1], analytics.responses[i].tweets)
         /\ analytics.responses[i].tweets = <<>> => analytics.out[1].avgEngagement = 0

\* C23: toAnalyticsJSON reports for every CrawlResponse totals equal to the sums
\* of retweetCount, likeCount and replyCount over its tweets; the dashboard
\* reports one set of totals, the sums over the tweets of all responses together;
\* every average and the engagement rate is 0 when there are no tweets.
C23_TotalsAreSums ==
  /\ ExportedFigures
  /\ analytics.pc = "rendered" =>
       IF analytics.responses = <<>> THEN analytics.out = <<>>
       ELSE /\ Len(analytics.out) = 1
            /\ TotalsOf(analytics.out[1], AllTweets(analytics.responses))
            /\ AllTweets(analytics.responses) = <<>> => analytics.out[1].avgEngagement = 0

\* two responses, the first without tweets: its averages are 0, the second's not
C23_Witness ==
  /\ analytics.pc = "exported"
  /\ Len(analytics.responses) = 2
  /\ analytics.responses[1].tweets = <<>>
  /\ analytics.out[1].engagementRate = 0
  /\ analytics.out[2].totalLikes = 2
  /\ analytics.out[2].totalRetweets = 6
  /\ analytics.out[2].averageRetweets = 300

\* ----------------------------------------------------------------- C24
\* the handler answers at most once, and has answered exactly when it is done
AnswersOnce == answer # NoResponse => answer' = answer

\* a synthesizeAnswer that threw, with the message it threw
LlmThrew ==
  /\ llmReply # NoReply
  /\ \/ llmReply.kind \in {"throw", "notok"}
     \/ llmReply.content = 0

LlmMessage ==
  IF llmReply.kind = "throw" THEN <<"fetch failed">>
  ELSE IF llmReply.kind = "notok" THEN <<"LLM request failed">>
  ELSE <<"LLM response empty">>

AnsweredByStatus ==
  /\ ppc = "done" <=> answer # NoResponse
  /\ ppc = "done" =>
       /\ answer.status \in {200, 400, 500}
       /\ ~post.bodyOk => answer.status = 500 /\ answer.error # <<>>
       /\ found.state = "rejected" => answer.status = 500 /\ answer.error = found.reason
       /\ crawled.state = "rejected" => answer.status = 500 /\ answer.error = crawled.reason
       /\ LlmThrew => answer.status = 500 /\ answer.error = LlmMessage
       /\ answer.status = 500 =>
            \/ ~post.bodyOk
            \/ found.state = "rejected"
            \/ crawled.state = "rejected"
            \/ LlmThrew

\* C24: a POST /api/search ends in one response with status 200, 400 or 500; an
\* exception while parsing the body or thrown by searchWeb, crawlPages or
\* synthesizeAnswer gives a 500 carrying its message; the handler never rejects.
C24_OneResponse == [][AnswersOnce]_vars /\ []AnsweredByStatus

\* crawlPages rejected and the handler answered 500 with its message
C24_Witness ==
  /\ ppc = "done"
  /\ crawled.state = "rejected"
  /\ answer.status = 500
  /\ answer.error = crawled.reason

\* ----------------------------------------------------------------- C25
\* the requests made through fetchWithTimeout do settle: a handler waiting for
\* searchWeb or crawlPages moves on
GuardedStagesEnd == (ppc \in {"search", "crawl"}) ~> (ppc \in {"llm", "done"})

\* C25: every outbound request of POST /api/search is guarded by the
\* REQUEST_TIMEOUT_MS abort timer, so the handler eventually responds even if a
\* provider never does.
C25_EventuallyResponds == (ppc # "idle") ~> (ppc = "done")

\* ----------------------------------------------------------------- C26
\* loading is true exactly while a request of the page is in flight
LoadingWhileInFlight == home.loading <=> inflight # <<>>

\* a handler that finishes leaves loading false
FinishClearsLoading == Len(inflight') < Len(inflight) => ~home'.loading

OneAtATime ==
  /\ Len(inflight) <= 1
  /\ ~(home.error # "" /\ home.results # <<>>)
  /\ ControlsDisabled <=> inflight # <<>>

\* starting clears both, success sets only results, failure sets only error
SetsOnlyOne ==
  /\ Len(inflight') > Len(inflight) => home'.error = "" /\ home'.results = <<>>
  /\ Len(inflight') < Len(inflight) =>
       \/ home'.error = home.error /\ home'.results # <<>>
       \/ home'.error # "" /\ home'.results = home.results

\* C27: the input and both buttons are disabled while loading, so at most one
\* crawl request is in flight; a non-empty error and a non-empty results list are
\* never shown together: starting a search clears both, success sets only
\* results, failure sets only error.
C27_OneInFlight == []OneAtATime /\ [][SetsOnlyOne]_vars

\* a multi-crawl in flight while the input still holds a query the buttons accept
C27_Witness ==
  /\ Len(inflight) = 1
  /\ inflight[1].body = "queries"
  /\ home.loading
  /\ IncludesComma(home.query)
  /\ Trim(home.query) # ""

\* ----------------------------------------------------------------- C28
\* C28: whenever results is non-empty, activeResultIndex is a valid index into
\* it, after any sequence of searches, multi-crawls and tab clicks.
C28_IndexValid ==
  home.results # <<>> =>
    home.activeResultIndex \in 0..(Len(home.results) - 1)

\* the third tab of a multi-crawl was selected and a single search is now in
\* flight: the index is still 2 and the search will return one entry
C28_Witness ==
  /\ home.activeResultIndex = 2
  /\ home.results = <<>>
  /\ Len(inflight) = 1
  /\ inflight[1].body = "query"

\* ----------------------------------------------------------------- C29
\* showResults never goes back to false
ShowResultsStays == gpage.showResults => gpage'.showResults

\* showResults is true from the first submitted search on; one request at most
OneSearchPerLoad ==
  /\ gpage.showResults <=> searches.sent >= 1
  /\ searches.sent <= 1
  /\ Len(searches.pending) <= 1

\* C29: showResults is monotone, true from the first submitted search on; the
\* search form is rendered only while it is false, so at most one POST
\* /api/search is issued per page load and no two are in flight together.
C29_SingleSearch == [][ShowResultsStays]_vars /\ []OneSearchPerLoad

\* the search failed and another query was typed into the header input: no form
\* is there to submit it
C29_Witness ==
  /\ gpage.showResults
  /\ searches = [sent |-> 1, pending |-> <<>>]
  /\ gpage.error = "Failed to fetch"
  /\ gpage.query = "go"
  /\ ~SearchBarRendered

\* ----------------------------------------------------------------- C30
\* how many tweets of the list an author wrote, and where the first of them is
TweetsBy(tweets, u) == Cardinality({i \in 1..Len(tweets) : tweets[i].username = u})
FirstBy(tweets, u) ==
  CHOOSE i \in 1..Len(tweets) :
    /\ tweets[i].username = u
    /\ \A j \in 1..(i - 1) : tweets[j].username # u
AuthorsOf(tweets) == {tweets[i].username : i \in 1..Len(tweets)}

\* out is the list of the top authors of tweets, cut at limit
IsTopAuthors(out, tweets, limit) ==
  /\ Len(out) = Min(limit, Cardinality(AuthorsOf(tweets)))
  /\ \A i \in 1..Len(out) :
       /\ Head(out[i]) = "@"
       /\ Tail(out[i]) \in AuthorsOf(tweets)
  /\ \A i, j \in 1..Len(out) : i < j =>
       /\ out[i] # out[j]
       /\ TweetsBy(tweets, Tail(out[i])) >= TweetsBy(tweets, Tail(out[j]))
       /\ TweetsBy(tweets, Tail(out[i])) = TweetsBy(tweets, Tail(out[j])) =>
            FirstBy(tweets, Tail(out[i])) < FirstBy(tweets, Tail(out[j]))
  /\ \A u \in AuthorsOf(tweets) : \A i \in 1..Len(out) :
       (\A k \in 1..Len(out) : Tail(out[k]) # u) =>
         \/ TweetsBy(tweets, u) < TweetsBy(tweets, Tail(out[i]))
         \/ /\ TweetsBy(tweets, u) = TweetsBy(tweets, Tail(out[i]))
            /\ FirstBy(tweets, u) > FirstBy(tweets, Tail(out[i]))

\* C30: the three copies of getTopAuthors return the same list for the same
\* tweets and limit: at most limit distinct '@username' entries, by
\* non-increasing tweet count, ties in order of first appearance.
C30_SameTopAuthors ==
  analytics.pc = "authors" =>
    /\ analytics.crawler = analytics.mock
    /\ analytics.mock = analytics.export
    /\ IsTopAuthors(analytics.export, analytics.tweets, analytics.limit)

\* b wrote first but a wrote twice, c ties with b and came later: @a, @b of three
C30_Witness ==
  /\ analytics.pc = "authors"
  /\ Len(analytics.tweets) = 4
  /\ analytics.limit = 3
  /\ analytics.export = <<<<"@", "a">>, <<"@", "b">>, <<"@", "c">>>>
  /\ analytics.tweets[1].username = <<"b">>
  /\ analytics.tweets[2].username = <<"a">>

====
